---- MODULE Spec2Model ----
(***************************************************************************)
(* A model of vtkPolyDataFromGocadTSurf (src/src/vtkPolyDataFromGocadTSurf.ts): *)
(* the line-by-line scan of a GOCAD TSurf text, the property-buffer         *)
(* helpers it calls, and the composition of the result.                     *)
(*                                                                          *)
(* One step of the model processes one line of the text: the line is drawn  *)
(* from a bounded set of token sequences (parts = line.split(/\s+/)), so a  *)
(* behaviour of the model is the scan of one input text.                    *)
(* SpecLoop gives the scan a whole text instead (lines, li) and takes one   *)
(* step per iteration of the main loop.                                     *)
(*                                                                          *)
(* The module also models the ScenePicker of src/src/ScenePicker.ts and the *)
(* GenericVTKPicker with drag visualization of src/unnamed/part_000; their  *)
(* variables rest in the specifications of the parse, and conversely.       *)
(*                                                                          *)
(* Values.  Numbers read from the text are kept as their canonical decimal  *)
(* text ("5", "-9999"); NaN, Infinity and undefined (also an array hole)    *)
(* are the strings of these names.  Vertex indices, component counts and    *)
(* counters are integers.  The value idToIndex.get returns for a missing    *)
(* key (undefined) is NoIndex.                                              *)
(***************************************************************************)
EXTENDS Integers, Sequences, FiniteSets, TLC

VARIABLES
    pc,                 \* "scan" | "header" | "done" | "noVertices" | "noTriangles" | "TypeError"
    shareAtomPoints,    \* option, l.56
    noDataToNaN,        \* option, l.57
    propertyNames,      \* l.61
    propertyUnits,      \* l.62
    propertyKinds,      \* l.63
    propertySizes,      \* l.64
    noDataValuesList,   \* l.65; <<>> stands for null (the code never stores an empty list)
    headerUnits,        \* l.68, a Map as a function on its keys
    headerKinds,        \* l.69
    idToIndex,          \* l.72, a Map as a function on its keys
    pts,                \* l.73, one <<x, y, z>> per point
    tris,               \* l.74, one <<a, b, c>> per triangle
    skippedTriangles,   \* l.75
    propBuffers,        \* l.79, the arrays; meaningful when propBuffersSet
    propBuffersSet,     \* l.79, propBuffers !== null
    result,             \* the returned TSurfParseResult, meaningful when pc = "done"
    headerName,         \* l.201, propName of the header block being scanned ("" when none)
    hist,               \* history of the records processed (not program state)
    opts,               \* ScenePicker.opts, ScenePicker.ts l.47
    subUnsub,           \* ScenePicker.subUnsub, l.48
    listeners,          \* ScenePicker.listeners, l.49, in insertion order
    interactor,         \* the subscriptions the interactor holds, by button
    log,                \* history of the picker runs and deliveries (not program state)
    genericPicker,      \* the fields of a GenericVTKPicker, unnamed/part_000 ll.51-63
    lines,              \* l.83, the lines of a text given whole, as token sequences
    li                  \* l.217, the 0-based index of the next line of lines

vars == <<pc, shareAtomPoints, noDataToNaN, propertyNames, propertyUnits,
          propertyKinds, propertySizes, noDataValuesList, headerUnits,
          headerKinds, idToIndex, pts, tris, skippedTriangles, propBuffers,
          propBuffersSet, result, headerName, hist, opts, subUnsub, listeners,
          interactor, log, genericPicker, lines, li>>

\* The variables of the ScenePicker and of its interactor
PickerVars == <<opts, subUnsub, listeners, interactor, log, genericPicker>>

\* The variables of the parse
ParserVars == <<pc, shareAtomPoints, noDataToNaN, propertyNames, propertyUnits,
                propertyKinds, propertySizes, noDataValuesList, headerUnits,
                headerKinds, idToIndex, pts, tris, skippedTriangles,
                propBuffers, propBuffersSet, result, headerName, hist, lines,
                li>>

\* The text and the position of the scan in it.  A behaviour that draws its
\* lines one by one keeps no text: lines is empty and li is NoText.
TextVars == <<lines, li>>

NoText == -1

\* li++ of the main loop, l.217
NextLine ==
    /\ lines' = lines
    /\ li' = IF li = NoText THEN li ELSE li + 1

-----------------------------------------------------------------------------
(* Bounds of the model *)

MaxPts == 3
MaxTris == 1
MaxSkipped == 1

-----------------------------------------------------------------------------
(* JavaScript values *)

NaN == "NaN"
undefined == "undefined"
NoIndex == -1

\* Number.isFinite
isFinite(v) == v \notin {"NaN", "Infinity", "-Infinity", "undefined"}

\* parseInt(tok, 10) on the token vocabulary of the model
parseInt(tok) ==
    CASE tok \in {"0", "0.5"} -> "0"
      [] tok \in {"1", "01", "1.0"} -> "1"
      [] tok \in {"2", "2.5"} -> "2"
      [] tok = "3" -> "3"
      [] tok = "5" -> "5"
      [] tok = "7" -> "7"
      [] tok = "-1" -> "-1"
      [] tok = "-9999" -> "-9999"
      [] OTHER -> NaN

\* parseFloat(tok) on the token vocabulary of the model
parseFloat(tok) ==
    CASE tok \in {"0", "1", "2", "3", "5", "7", "-1", "-9999", "0.5", "2.5",
                  "Infinity"} -> tok
      [] tok = "01" -> "1"
      [] tok = "1.0" -> "1"
      [] OTHER -> NaN

\* Array.prototype.length = n (a longer array gets holes)
SetLength(arr, n) ==
    IF n <= Len(arr) THEN SubSeq(arr, 1, n)
    ELSE arr \o [i \in 1..(n - Len(arr)) |-> undefined]

\* arr[offset], offset 0-based
GetAt(arr, offset) ==
    IF offset + 1 \in 1..Len(arr) THEN arr[offset + 1] ELSE undefined

\* arr[offset] = v, offset 0-based (the array grows, leaving holes)
SetAt(arr, offset, v) ==
    [SetLength(arr, IF Len(arr) <= offset THEN offset + 1 ELSE Len(arr))
        EXCEPT ![offset + 1] = v]

\* n copies of v
Repeat(v, n) == [i \in 1..n |-> v]

\* Map.prototype.get on idToIndex
MapGet(m, k) == IF k \in DOMAIN m THEN m[k] ELSE NoIndex

\* Map.prototype.set
MapSet(m, k, v) == [x \in (DOMAIN m) \cup {k} |-> IF x = k THEN v ELSE m[x]]

\* HeaderGet that returns an entry of the map whatever the key
HeaderGet_AnyName(m, k) ==
    IF DOMAIN m # {} THEN m[CHOOSE x \in DOMAIN m : TRUE] ELSE undefined

\* Map.prototype.get on headerUnits / headerKinds
HeaderGet(m, k) == IF k \in DOMAIN m THEN m[k] ELSE undefined

EmptyMap == [x \in {} |-> 0]

-----------------------------------------------------------------------------
(* Record classification, ll.219-308 *)

\* the case folding of the regular expressions' i flag
Upper(kw) ==
    CASE kw = "end" -> "END"
      [] kw = "vrtx" -> "VRTX"
      [] kw = "pvrtx" -> "PVRTX"
      [] kw = "atom" -> "ATOM"
      [] kw = "trgl" -> "TRGL"
      [] kw = "properties" -> "PROPERTIES"
      [] kw = "esizes" -> "ESIZES"
      [] kw = "property_classes" -> "PROPERTY_CLASSES"
      [] kw = "no_data_values" -> "NO_DATA_VALUES"
      [] OTHER -> kw

\* The branch of the main loop that takes the line whose tokens are parts
Classify(parts) ==
    IF Len(parts) = 0 \/ parts[1] = "#" THEN "skip"
    ELSE IF Len(parts) = 1 /\ parts[1] = "END" THEN "END"
    ELSE LET kw == Upper(parts[1]) IN
         CASE kw = "PROPERTIES" -> "PROPERTIES"
           [] kw = "PROPERTY_CLASSES" -> "PROPERTY_CLASSES"
           [] kw \in {"NO_DATA_VALUES", "NO_DATA_VALUE"} -> "NO_DATA_VALUES"
           [] kw = "ESIZES" -> "ESIZES"
           [] kw = "PROPERTY_CLASS_HEADER" -> "PROPERTY_CLASS_HEADER"
           [] kw \in {"VRTX", "PVRTX"} -> "VRTX"
           [] kw = "ATOM" -> "ATOM"
           [] kw = "TRGL" -> "TRGL"
           [] OTHER -> "other"

-----------------------------------------------------------------------------
(* The helpers of the parse.  Each takes and returns the record S of the    *)
(* containers it reads and writes (fields named as the code's variables;    *)
(* threw is set when the helper throws a TypeError).                        *)

Cur ==
    [propertyNames |-> propertyNames, propertyUnits |-> propertyUnits,
     propertyKinds |-> propertyKinds, propertySizes |-> propertySizes,
     propBuffers |-> propBuffers, propBuffersSet |-> propBuffersSet,
     pts |-> pts, threw |-> FALSE]

\* propertySizes[p] ?? 1, p 1-based
SizeAt(sizes, p) == IF p \in 1..Len(sizes) THEN sizes[p] ELSE 1

\* `prop_${k}`
AutoName(k) == "prop_" \o ToString(k)

\* The NaN placeholders addPoint pushes on buffer p, ll.92-95
Placeholders(S, p) == Repeat(NaN, SizeAt(S.propertySizes, p))

\* addPoint, ll.86-99; the index it returns is Len(S.pts)
addPoint(S, x, y, z) ==
    [S EXCEPT
        !.pts = Append(S.pts, <<x, y, z>>),
        !.propBuffers =
            IF S.propBuffersSet
            THEN [p \in 1..Len(S.propBuffers) |->
                    S.propBuffers[p] \o Placeholders(S, p)]
            ELSE S.propBuffers]

\* NormalizedSizes that keeps the declared sizes beyond the names
NormalizedSizes_Keep(sizes, names) ==
    IF Len(sizes) = 0 THEN [i \in 1..Len(names) |-> 1]
    ELSE IF Len(sizes) < Len(names)
         THEN [i \in 1..Len(names) |-> SizeAt(sizes, i)]
         ELSE sizes

\* The sizes ensurePropBuffers settles for the names it has, ll.110-117
NormalizedSizes(sizes, names) ==
    IF Len(sizes) = 0 THEN [i \in 1..Len(names) |-> 1]
    ELSE IF Len(sizes) # Len(names)
         THEN [i \in 1..Len(names) |-> SizeAt(sizes, i)]
         ELSE sizes

\* ensurePropBuffers, ll.102-148 (maybeValueCount = 0 when the argument is
\* omitted); nPropComponents and propCompOffsets are written and never read
ensurePropBuffers(S, maybeValueCount) ==
    IF S.propBuffersSet THEN S
    ELSE
    LET names == IF Len(S.propertyNames) = 0 /\ maybeValueCount > 0
                 THEN [i \in 1..maybeValueCount |-> AutoName(i)]
                 ELSE S.propertyNames
        sizes == NormalizedSizes(S.propertySizes, names)
        units == IF Len(S.propertyUnits) # Len(names)
                 THEN [i \in 1..Len(names) |-> HeaderGet(headerUnits, names[i])]
                 ELSE S.propertyUnits
        kinds == IF Len(S.propertyKinds) # Len(names)
                 THEN [i \in 1..Len(names) |-> HeaderGet(headerKinds, names[i])]
                 ELSE S.propertyKinds
        existingPts == Len(S.pts)
    IN  [S EXCEPT
            !.propertyNames = names,
            !.propertySizes = sizes,
            !.propertyUnits = units,
            !.propertyKinds = kinds,
            !.propBuffersSet = TRUE,
            !.propBuffers = [p \in 1..Len(names) |->
                                Repeat(NaN, existingPts * SizeAt(sizes, p))]]

\* The value of cursor when the write loop reaches property p, ll.176-180
RECURSIVE CursorAt(_, _)
CursorAt(sizes, p) ==
    IF p <= 1 THEN 0 ELSE CursorAt(sizes, p - 1) + SizeAt(sizes, p - 1)

\* WriteComponents with the offset ptIdx + c, the component count left out
RECURSIVE WriteComponents_NoStride(_, _, _, _, _, _)
WriteComponents_NoStride(arr, ptIdx, comp, values, cursor, c) ==
    IF c >= comp THEN arr
    ELSE WriteComponents_NoStride(SetAt(arr, ptIdx + c, GetAt(values, cursor + c)),
                                  ptIdx, comp, values, cursor, c + 1)

\* The inner write loop for one property, components c..comp-1, ll.179-188
RECURSIVE WriteComponents(_, _, _, _, _, _)
WriteComponents(arr, ptIdx, comp, values, cursor, c) ==
    IF c >= comp THEN arr
    ELSE WriteComponents(SetAt(arr, ptIdx * comp + c, GetAt(values, cursor + c)),
                         ptIdx, comp, values, cursor, c + 1)

\* The schema extension of setPropValuesForPoint, ll.158-173
ExtendSchema(S, nValues) ==
    IF nValues <= Len(S.propertyNames) THEN S
    ELSE
    LET start == Len(S.propertyNames)
        k == nValues - start
        names == S.propertyNames \o [i \in 1..k |-> AutoName(start + i)]
        bufs == S.propBuffers \o Repeat(<<>>, k)
        existingPts == Len(S.pts)
    IN  IF Len(names) > Len(bufs)
        THEN \* propBuffers[p] is undefined for some p in start..names.length-1
             [S EXCEPT !.threw = TRUE]
        ELSE [S EXCEPT
                !.propertyNames = names,
                !.propertySizes = S.propertySizes \o Repeat(1, k),
                !.propertyUnits = S.propertyUnits \o Repeat(undefined, k),
                !.propertyKinds = S.propertyKinds \o Repeat(undefined, k),
                !.propBuffers = [p \in 1..Len(bufs) |->
                                    IF p > start /\ p <= Len(names)
                                    THEN Repeat(NaN, existingPts)
                                    ELSE bufs[p]]]

\* The write loop of setPropValuesForPoint, ll.175-189
WriteValues(S, ptIdx, values) ==
    IF Len(S.propertyNames) > Len(S.propBuffers)
    THEN \* arr = propBuffers[p] is undefined and arr.length throws
         [S EXCEPT !.threw = TRUE]
    ELSE [S EXCEPT
            !.propBuffers = [p \in 1..Len(S.propBuffers) |->
                IF p <= Len(S.propertyNames)
                THEN WriteComponents(S.propBuffers[p], ptIdx,
                                     SizeAt(S.propertySizes, p), values,
                                     CursorAt(S.propertySizes, p), 0)
                ELSE S.propBuffers[p]]]

\* setPropValuesForPoint, ll.151-190
setPropValuesForPoint(S, ptIdx, values) ==
    LET S1 == ensurePropBuffers(S, Len(values))
        S2 == ExtendSchema(S1, Len(values))
    IN  IF S2.threw THEN S2 ELSE WriteValues(S2, ptIdx, values)

\* The duplication of refIdx's property values on newIdx, ll.292-300
RECURSIVE CopyComponents(_, _, _, _, _)
CopyComponents(arr, refIdx, newIdx, comp, c) ==
    IF c >= comp THEN arr
    ELSE CopyComponents(SetAt(arr, newIdx * comp + c, GetAt(arr, refIdx * comp + c)),
                        refIdx, newIdx, comp, c + 1)

DuplicateProps(S, refIdx, newIdx) ==
    IF ~S.propBuffersSet THEN S
    ELSE [S EXCEPT
            !.propBuffers = [p \in 1..Len(S.propBuffers) |->
                CopyComponents(S.propBuffers[p], refIdx, newIdx,
                               SizeAt(S.propertySizes, p), 0)]]

\* The assignment of the containers a helper returned
Commit(S) ==
    /\ propertyNames' = S.propertyNames
    /\ propertyUnits' = S.propertyUnits
    /\ propertyKinds' = S.propertyKinds
    /\ propertySizes' = S.propertySizes
    /\ propBuffers' = S.propBuffers
    /\ propBuffersSet' = S.propBuffersSet
    /\ pts' = S.pts
    /\ pc' = IF S.threw THEN "TypeError" ELSE pc

-----------------------------------------------------------------------------
(* The history of the records processed: what the claims about a whole      *)
(* input are stated over.  It is written by the actions and never read by   *)
(* the model of the code.                                                   *)
(*   recording      whether this behaviour keeps the history: it is set     *)
(*                  once, by the initial predicate of the specification     *)
(*   wellFormed     every VRTX/PVRTX record so far was valid (five tokens,  *)
(*                  finite id and coordinates) and every TRGL record so far *)
(*                  had three ids that resolved, when it was processed, to  *)
(*                  pairwise distinct indices                               *)
(*   vertexRecords, trglRecords, dupAtoms                                   *)
(*                  the numbers of VRTX/PVRTX records, of TRGL records and  *)
(*                  of ATOM records processed in duplicate mode with a      *)
(*                  resolvable refId; kept while wellFormed, 0 afterwards   *)
(*   trglGood / trglUnresolved / trglDegenerate                             *)
(*                  the TRGL records with three ids whose ids, when the     *)
(*                  record was processed, all resolved to distinct indices  *)
(*                  / did not all resolve / resolved, two to one index      *)
(*   propSeen       a PROPERTIES or PROPERTY_CLASSES record, or a vertex    *)
(*                  record with a property column, was processed            *)
(*   droppedAtom    the new id of the first ATOM record dropped for an      *)
(*                  unresolved refId while its new id was unresolved        *)
(*                  (NaN: none; no ATOM of the texts scanned has an id      *)
(*                  token that parses to NaN)                               *)
(*   tracking       whether this behaviour keeps the fields below: it is    *)
(*                  set once, by the initial predicate                      *)
(*   ended          the line END was processed                              *)
(*   lowerEnd       a line made of the terminator keyword in another letter *)
(*                  case was processed                                      *)
(*   declared       a PROPERTIES record with at least one name was          *)
(*                  processed                                               *)
(*   vertexSeen     a VRTX/PVRTX record with five tokens or more was        *)
(*                  processed                                               *)
(*   declNames, declSizes                                                   *)
(*                  the names of the last PROPERTIES record with names and  *)
(*                  the sizes of the last ESIZES record with sizes          *)
(*   columnsMatch   no PROPERTIES, PROPERTY_CLASSES or ESIZES record        *)
(*                  followed a vertex record, and every vertex record       *)
(*                  carried as many property columns as the sum of          *)
(*                  declSizes                                               *)

HistInit ==
    [recording |-> TRUE, wellFormed |-> TRUE, vertexRecords |-> 0, trglRecords |-> 0,
     dupAtoms |-> 0, trglGood |-> 0, trglUnresolved |-> 0,
     trglDegenerate |-> 0, propSeen |-> FALSE, droppedAtom |-> NaN,
     tracking |-> FALSE, ended |-> FALSE, lowerEnd |-> FALSE,
     declared |-> FALSE, vertexSeen |-> FALSE, declNames |-> <<>>,
     declSizes |-> <<>>, columnsMatch |-> TRUE]

\* The history of the behaviours that keep none
HistOff == [HistInit EXCEPT !.recording = FALSE]

\* The history of the behaviours that keep the fields of tracking only
HistTrack == [HistOff EXCEPT !.tracking = TRUE]

\* The sum of a list of component counts
RECURSIVE SumSizes(_)
SumSizes(sizes) ==
    IF Len(sizes) = 0 THEN 0 ELSE sizes[1] + SumSizes(Tail(sizes))

\* The history once a record is not well formed
IllFormed(h) ==
    [h EXCEPT !.wellFormed = FALSE, !.vertexRecords = 0, !.trglRecords = 0,
              !.dupAtoms = 0]

\* The history after a PROPERTIES or PROPERTY_CLASSES record
HistDeclared(h) == IF h.recording THEN [h EXCEPT !.propSeen = TRUE] ELSE h

\* The history after a VRTX/PVRTX record
HistVertex(h, valid, hasColumns) ==
    LET h1 == [h EXCEPT !.propSeen = @ \/ hasColumns] IN
    IF ~h.recording THEN h
    ELSE IF ~h.wellFormed THEN h1
    ELSE IF valid THEN [h1 EXCEPT !.vertexRecords = @ + 1]
    ELSE IllFormed(h1)

\* The history after an ATOM record: the ids and the table before the record
HistAtom(h, hasIds, id, ref, table, duplicate) ==
    IF ~hasIds \/ ~h.recording THEN h
    ELSE IF ref \in DOMAIN table
    THEN IF duplicate /\ h.wellFormed THEN [h EXCEPT !.dupAtoms = @ + 1] ELSE h
    ELSE IF h.droppedAtom = NaN /\ id \notin DOMAIN table
         THEN [h EXCEPT !.droppedAtom = id] ELSE h

\* The history after a TRGL record: the keys of its ids (<<>> when it has
\* fewer than three) and the table before the record
HistTrgl(h, keys, table) ==
    IF ~h.recording THEN h
    ELSE IF Len(keys) < 3 THEN IllFormed(h)
    ELSE IF \E i \in 1..3 : keys[i] \notin DOMAIN table
    THEN [IllFormed(h) EXCEPT !.trglUnresolved = @ + 1]
    ELSE IF Cardinality({table[keys[i]] : i \in 1..3}) < 3
    THEN [IllFormed(h) EXCEPT !.trglDegenerate = @ + 1]
    ELSE IF h.wellFormed
         THEN [h EXCEPT !.trglGood = @ + 1, !.trglRecords = @ + 1]
         ELSE [h EXCEPT !.trglGood = @ + 1]

\* The tracked history after the line whose tokens are parts (an ESIZES
\* record apart)
HistLine(h, parts) ==
    IF ~h.tracking THEN h
    ELSE LET kind == Classify(parts) IN
         CASE kind = "END" -> [h EXCEPT !.ended = TRUE]
           [] kind = "other" /\ Len(parts) = 1 /\ Upper(parts[1]) = "END" ->
                [h EXCEPT !.lowerEnd = TRUE]
           [] kind = "PROPERTIES" /\ Len(parts) > 1 ->
                [h EXCEPT !.declared = TRUE, !.declNames = Tail(parts),
                          !.columnsMatch = @ /\ ~h.vertexSeen]
           [] kind = "PROPERTY_CLASSES" /\ Len(parts) > 1 ->
                [h EXCEPT !.columnsMatch = @ /\ ~h.vertexSeen]
           [] kind = "VRTX" /\ Len(parts) >= 5 ->
                [h EXCEPT !.vertexSeen = TRUE,
                          !.columnsMatch =
                              @ /\ Len(parts) - 5 = SumSizes(h.declSizes)]
           [] OTHER -> h

\* The tracked history after an ESIZES record that sets the sizes
HistSizes(h, sizes) ==
    IF ~h.tracking THEN h
    ELSE [h EXCEPT !.declSizes = sizes, !.columnsMatch = @ /\ ~h.vertexSeen]

-----------------------------------------------------------------------------
(* The records of the main loop, ll.217-331.  parts is line.split(/\s+/)    *)
(* of the trimmed line, the keyword included.                               *)

\* The bounds of the model on the state an action leaves
InBounds ==
    /\ Len(pts) <= MaxPts
    /\ Len(tris) <= MaxTris
    /\ skippedTriangles <= MaxSkipped

\* The test of l.258 on the tokens of a vertex record
VertexFinite(id, x, y, z) ==
    /\ isFinite(id) /\ isFinite(x) /\ isFinite(y) /\ isFinite(z)

\* The property columns of a vertex record, l.264
PropertyColumns(parts) ==
    [i \in 1..(Len(parts) - 5) |->
        LET v == parseFloat(parts[i + 5]) IN IF isFinite(v) THEN v ELSE NaN]

\* VRTX / PVRTX, ll.251-273
Vrtx(parts) ==
    /\ pc = "scan"
    /\ Classify(parts) = "VRTX"
    /\ IF Len(parts) >= 5
          /\ VertexFinite(parseInt(parts[2]), parseFloat(parts[3]),
                          parseFloat(parts[4]), parseFloat(parts[5]))
       THEN LET idx == Len(pts)
                S1 == addPoint(Cur, parseFloat(parts[3]), parseFloat(parts[4]),
                               parseFloat(parts[5]))
                S2 == IF Len(parts) > 5
                      THEN setPropValuesForPoint(S1, idx, PropertyColumns(parts))
                      ELSE IF Len(S1.propertyNames) > 0 /\ ~S1.propBuffersSet
                           THEN ensurePropBuffers(S1, 0)
                           ELSE S1
            IN  /\ idToIndex' = MapSet(idToIndex, parseInt(parts[2]), idx)
                /\ Commit(S2)
                /\ hist' = HistLine(HistVertex(hist, TRUE, Len(parts) > 5), parts)
       ELSE /\ UNCHANGED <<idToIndex, pc, propertyNames, propertyUnits,
                           propertyKinds, propertySizes, propBuffers,
                           propBuffersSet, pts>>
            /\ hist' = HistLine(HistVertex(hist, FALSE, Len(parts) > 5), parts)
    /\ UNCHANGED <<shareAtomPoints, noDataToNaN, noDataValuesList, headerUnits,
                   headerKinds, tris, skippedTriangles, result>>
    /\ InBounds'
    /\ UNCHANGED <<headerName, PickerVars>>
    /\ NextLine

\* AtomRef with a fallback to the first point for an unresolved reference
AtomRef_FirstPoint(parts) ==
    IF parseInt(parts[3]) \notin DOMAIN idToIndex /\ Len(pts) > 0 THEN 0
    ELSE MapGet(idToIndex, parseInt(parts[3]))

\* The index of the reference id of an ATOM record, ll.280-281
AtomRef(parts) == MapGet(idToIndex, parseInt(parts[3]))

\* AtomShares with the option read the wrong way round
AtomShares_Inverted == ~shareAtomPoints

\* Whether an ATOM record shares the point of its reference, l.283
AtomShares == shareAtomPoints

\* ATOM newId refId, ll.276-305
Atom(parts) ==
    /\ pc = "scan"
    /\ Classify(parts) = "ATOM"
    /\ IF Len(parts) >= 3
       THEN LET id == parseInt(parts[2])
                refIdx == AtomRef(parts)
            IN  IF refIdx # NoIndex
                THEN IF AtomShares
                     THEN /\ idToIndex' = MapSet(idToIndex, id, refIdx)
                          /\ UNCHANGED <<pc, propertyNames, propertyUnits,
                                         propertyKinds, propertySizes,
                                         propBuffers, propBuffersSet, pts>>
                     ELSE LET newIdx == Len(pts)
                              S1 == addPoint(Cur, pts[refIdx + 1][1],
                                             pts[refIdx + 1][2], pts[refIdx + 1][3])
                              S2 == DuplicateProps(S1, refIdx, newIdx)
                          IN  /\ idToIndex' = MapSet(idToIndex, id, newIdx)
                              /\ Commit(S2)
                ELSE UNCHANGED <<idToIndex, pc, propertyNames, propertyUnits,
                                 propertyKinds, propertySizes, propBuffers,
                                 propBuffersSet, pts>>
       ELSE UNCHANGED <<idToIndex, pc, propertyNames, propertyUnits,
                        propertyKinds, propertySizes, propBuffers,
                        propBuffersSet, pts>>
    /\ hist' = IF Len(parts) >= 3
               THEN HistAtom(hist, TRUE, parseInt(parts[2]), parseInt(parts[3]),
                             idToIndex, ~shareAtomPoints)
               ELSE HistAtom(hist, FALSE, NaN, NaN, idToIndex, ~shareAtomPoints)
    /\ UNCHANGED <<shareAtomPoints, noDataToNaN, noDataValuesList, headerUnits,
                   headerKinds, tris, skippedTriangles, result>>
    /\ InBounds'
    /\ UNCHANGED <<headerName, PickerVars>>
    /\ NextLine

\* TrglAccept that wants the indices in increasing order
TrglAccept_Ordered(a, b, c) ==
    /\ a # NoIndex /\ b # NoIndex /\ c # NoIndex
    /\ a < b /\ b < c

\* TrglAccept without the test a !== b
TrglAccept_NoAB(a, b, c) ==
    /\ a # NoIndex /\ b # NoIndex /\ c # NoIndex
    /\ b # c /\ c # a

\* TrglAccept without the test c !== a
TrglAccept_NoCA(a, b, c) ==
    /\ a # NoIndex /\ b # NoIndex /\ c # NoIndex
    /\ a # b /\ b # c

\* TrglAccept without the test c !== undefined
TrglAccept_NoCheckC(a, b, c) ==
    /\ a # NoIndex /\ b # NoIndex
    /\ a # b /\ b # c /\ c # a

\* TrglAccept without the tests for undefined
TrglAccept_Lenient(a, b, c) ==
    /\ a # b /\ b # c /\ c # a

\* The test of ll.314-321 on the three values idToIndex.get returned
TrglAccept(a, b, c) ==
    /\ a # NoIndex /\ b # NoIndex /\ c # NoIndex
    /\ a # b /\ b # c /\ c # a

\* Trgl that leaves a triangle with three resolved ids it does not retain
\* uncounted
Trgl_SilentSkip(parts) ==
    /\ pc = "scan"
    /\ Classify(parts) = "TRGL"
    /\ IF Len(parts) >= 4
       THEN LET a == MapGet(idToIndex, parseInt(parts[2]))
                b == MapGet(idToIndex, parseInt(parts[3]))
                c == MapGet(idToIndex, parseInt(parts[4]))
            IN  IF TrglAccept(a, b, c)
                THEN /\ tris' = Append(tris, <<a, b, c>>)
                     /\ UNCHANGED skippedTriangles
                ELSE /\ skippedTriangles' =
                          IF a # NoIndex /\ b # NoIndex /\ c # NoIndex
                          THEN skippedTriangles ELSE skippedTriangles + 1
                     /\ UNCHANGED tris
       ELSE UNCHANGED <<tris, skippedTriangles>>
    /\ hist' = HistTrgl(hist,
                        IF Len(parts) >= 4
                        THEN <<parseInt(parts[2]), parseInt(parts[3]),
                               parseInt(parts[4])>>
                        ELSE <<>>,
                        idToIndex)
    /\ UNCHANGED <<pc, shareAtomPoints, noDataToNaN, propertyNames,
                   propertyUnits, propertyKinds, propertySizes,
                   noDataValuesList, headerUnits, headerKinds, idToIndex, pts,
                   propBuffers, propBuffersSet, result>>
    /\ InBounds'
    /\ UNCHANGED <<headerName, PickerVars>>
    /\ NextLine

\* TRGL a b c, ll.308-328
Trgl(parts) ==
    /\ pc = "scan"
    /\ Classify(parts) = "TRGL"
    /\ IF Len(parts) >= 4
       THEN LET a == MapGet(idToIndex, parseInt(parts[2]))
                b == MapGet(idToIndex, parseInt(parts[3]))
                c == MapGet(idToIndex, parseInt(parts[4]))
            IN  IF TrglAccept(a, b, c)
                THEN /\ tris' = Append(tris, <<a, b, c>>)
                     /\ UNCHANGED skippedTriangles
                ELSE /\ skippedTriangles' = skippedTriangles + 1
                     /\ UNCHANGED tris
       ELSE UNCHANGED <<tris, skippedTriangles>>
    /\ hist' = HistTrgl(hist,
                        IF Len(parts) >= 4
                        THEN <<parseInt(parts[2]), parseInt(parts[3]),
                               parseInt(parts[4])>>
                        ELSE <<>>,
                        idToIndex)
    /\ UNCHANGED <<pc, shareAtomPoints, noDataToNaN, propertyNames,
                   propertyUnits, propertyKinds, propertySizes,
                   noDataValuesList, headerUnits, headerKinds, idToIndex, pts,
                   propBuffers, propBuffersSet, result>>
    /\ InBounds'
    /\ UNCHANGED <<headerName, PickerVars>>
    /\ NextLine

\* The variables the metadata records leave alone
GeometryVars == <<idToIndex, pts, tris, skippedTriangles, propBuffers,
                  propBuffersSet, result, pc, shareAtomPoints, noDataToNaN>>

\* Properties that appends the names to the list
Properties_Append(parts) ==
    /\ pc = "scan"
    /\ Classify(parts) = "PROPERTIES"
    /\ propertyNames' = IF Len(parts) > 1 THEN propertyNames \o Tail(parts)
                        ELSE propertyNames
    /\ hist' = HistLine(HistDeclared(hist), parts)
    /\ UNCHANGED <<propertyUnits, propertyKinds, propertySizes,
                   noDataValuesList, headerUnits, headerKinds>>
    /\ UNCHANGED GeometryVars
    /\ UNCHANGED <<headerName, PickerVars>>
    /\ NextLine

\* PROPERTIES name..., ll.224-228
Properties(parts) ==
    /\ pc = "scan"
    /\ Classify(parts) = "PROPERTIES"
    /\ propertyNames' = IF Len(parts) > 1 THEN Tail(parts) ELSE propertyNames
    /\ hist' = HistLine(HistDeclared(hist), parts)
    /\ UNCHANGED <<propertyUnits, propertyKinds, propertySizes,
                   noDataValuesList, headerUnits, headerKinds>>
    /\ UNCHANGED GeometryVars
    /\ UNCHANGED <<headerName, PickerVars>>
    /\ NextLine

\* PropertyClasses that adopts its names whatever the list holds
PropertyClasses_Always(parts) ==
    /\ pc = "scan"
    /\ Classify(parts) = "PROPERTY_CLASSES"
    /\ propertyNames' = IF Len(parts) > 1 THEN Tail(parts) ELSE propertyNames
    /\ hist' = HistLine(HistDeclared(hist), parts)
    /\ UNCHANGED <<propertyUnits, propertyKinds, propertySizes,
                   noDataValuesList, headerUnits, headerKinds>>
    /\ UNCHANGED GeometryVars
    /\ UNCHANGED <<headerName, PickerVars>>
    /\ NextLine

\* PROPERTY_CLASSES name..., ll.229-234
PropertyClasses(parts) ==
    /\ pc = "scan"
    /\ Classify(parts) = "PROPERTY_CLASSES"
    /\ propertyNames' = IF Len(propertyNames) = 0 /\ Len(parts) > 1
                        THEN Tail(parts) ELSE propertyNames
    /\ hist' = HistLine(HistDeclared(hist), parts)
    /\ UNCHANGED <<propertyUnits, propertyKinds, propertySizes,
                   noDataValuesList, headerUnits, headerKinds>>
    /\ UNCHANGED GeometryVars
    /\ UNCHANGED <<headerName, PickerVars>>
    /\ NextLine

\* The list a NO_DATA_VALUES record declares, l.236
NoDataOf(parts) ==
    SelectSeq([i \in 1..(Len(parts) - 1) |-> parseFloat(parts[i + 1])], isFinite)

\* NoDataValues that substitutes NaN for the first sentinel at once
NoDataValues_Eager(parts) ==
    /\ pc = "scan"
    /\ Classify(parts) = "NO_DATA_VALUES"
    /\ noDataValuesList' = IF Len(NoDataOf(parts)) > 0 THEN NoDataOf(parts)
                           ELSE noDataValuesList
    /\ propBuffers' = [p \in 1..Len(propBuffers) |->
                          [i \in 1..Len(propBuffers[p]) |->
                              IF Len(noDataValuesList') > 0
                                 /\ propBuffers[p][i] = noDataValuesList'[1]
                              THEN NaN ELSE propBuffers[p][i]]]
    /\ UNCHANGED <<propertyNames, propertyUnits, propertyKinds, propertySizes,
                   headerUnits, headerKinds, hist, idToIndex, pts, tris,
                   skippedTriangles, propBuffersSet, result, pc,
                   shareAtomPoints, noDataToNaN>>
    /\ UNCHANGED <<headerName, PickerVars>>
    /\ NextLine

\* NO_DATA_VALUES v..., ll.235-239
NoDataValues(parts) ==
    /\ pc = "scan"
    /\ Classify(parts) = "NO_DATA_VALUES"
    /\ noDataValuesList' = IF Len(NoDataOf(parts)) > 0 THEN NoDataOf(parts)
                           ELSE noDataValuesList
    /\ UNCHANGED <<propertyNames, propertyUnits, propertyKinds, propertySizes,
                   headerUnits, headerKinds, hist>>
    /\ UNCHANGED GeometryVars
    /\ UNCHANGED <<headerName, PickerVars>>
    /\ NextLine

\* The component count an ESIZES token declares, ll.241-242
SizeOf(tok) ==
    LET v == parseInt(tok) IN
    CASE v = "1" -> 1
      [] v = "2" -> 2
      [] v = "3" -> 3
      [] v = "5" -> 5
      [] v = "7" -> 7
      [] OTHER -> 1

\* ESIZES n..., ll.240-244
Esizes(parts) ==
    /\ pc = "scan"
    /\ Classify(parts) = "ESIZES"
    /\ propertySizes' = IF Len(parts) > 1
                        THEN [i \in 1..(Len(parts) - 1) |-> SizeOf(parts[i + 1])]
                        ELSE propertySizes
    /\ hist' = IF Len(parts) > 1 THEN HistSizes(hist, propertySizes') ELSE hist
    /\ UNCHANGED <<propertyNames, propertyUnits, propertyKinds,
                   noDataValuesList, headerUnits, headerKinds>>
    /\ UNCHANGED GeometryVars
    /\ UNCHANGED <<headerName, PickerVars>>
    /\ NextLine

\* A blank line, a comment or a record of no handled kind, ll.220, 330
Ignore(parts) ==
    /\ pc = "scan"
    /\ Classify(parts) \in {"skip", "other"}
    /\ hist' = HistLine(hist, parts)
    /\ UNCHANGED <<pc, shareAtomPoints, noDataToNaN, propertyNames,
                   propertyUnits, propertyKinds, propertySizes,
                   noDataValuesList, headerUnits, headerKinds, idToIndex, pts,
                   tris, skippedTriangles, propBuffers, propBuffersSet, result>>
    /\ UNCHANGED <<headerName, PickerVars>>
    /\ NextLine

-----------------------------------------------------------------------------
(* After the scan, ll.333-434 *)

\* SentinelOf that takes the first entry whatever the length of the list
SentinelOf_First(ndl, nProps, p) == ndl[1]

\* The sentinel of property p (1-based) in the list ndl, for nProps properties:
\* perPropNoData[p] of ll.342-345 and noData of ll.419-422
SentinelOf(ndl, nProps, p) ==
    IF Len(ndl) = nProps THEN GetAt(ndl, p - 1) ELSE ndl[1]

\* NoDataPass without the test of the option noDataToNaN
NoDataPass_Always(S) ==
    IF S.propBuffersSet /\ Len(noDataValuesList) > 0
    THEN [S EXCEPT !.propBuffers = [p \in 1..Len(S.propBuffers) |->
            LET nd == IF Len(noDataValuesList) = Len(S.propertyNames)
                      THEN GetAt(noDataValuesList, p - 1)
                      ELSE noDataValuesList[1]
            IN  [i \in 1..Len(S.propBuffers[p]) |->
                    IF S.propBuffers[p][i] = nd THEN NaN
                    ELSE S.propBuffers[p][i]]]]
    ELSE S

\* NoDataPass with the first sentinel for every property
NoDataPass_FirstOnly(S) ==
    IF noDataToNaN /\ S.propBuffersSet /\ Len(noDataValuesList) > 0
    THEN [S EXCEPT !.propBuffers = [p \in 1..Len(S.propBuffers) |->
            [i \in 1..Len(S.propBuffers[p]) |->
                IF S.propBuffers[p][i] = noDataValuesList[1] THEN NaN
                ELSE S.propBuffers[p][i]]]]
    ELSE S

\* The no-data pass over the buffers, ll.340-356
NoDataPass(S) ==
    IF noDataToNaN /\ S.propBuffersSet /\ Len(noDataValuesList) > 0
    THEN [S EXCEPT !.propBuffers = [p \in 1..Len(S.propBuffers) |->
            LET nd == IF Len(noDataValuesList) = Len(S.propertyNames)
                      THEN GetAt(noDataValuesList, p - 1)
                      ELSE IF p <= Len(S.propertyNames)
                           THEN noDataValuesList[1] ELSE undefined
            IN  IF isFinite(nd)
                THEN [i \in 1..Len(S.propBuffers[p]) |->
                        IF S.propBuffers[p][i] = nd THEN NaN
                        ELSE S.propBuffers[p][i]]
                ELSE S.propBuffers[p]]]
    ELSE S

\* Float32Array.from on a buffer: a hole or undefined becomes NaN
Float32ArrayFrom(arr) ==
    [i \in 1..Len(arr) |-> IF arr[i] = undefined THEN NaN ELSE arr[i]]

\* The point-data arrays attached to the mesh, ll.377-398
PointDataArrays(S) ==
    IF S.propBuffersSet /\ Len(S.propertyNames) > 0
    THEN [p \in 1..Len(S.propertyNames) |->
            [name |-> S.propertyNames[p],
             numberOfComponents |-> SizeAt(S.propertySizes, p),
             values |-> Float32ArrayFrom(S.propBuffers[p]),
             unit |-> GetAt(S.propertyUnits, p - 1),
             kind |-> GetAt(S.propertyKinds, p - 1)]]
    ELSE <<>>

\* The array made the active scalars, ll.394-396: its 1-based position, or 0
ActiveScalars(S) ==
    IF S.propBuffersSet /\ Len(S.propertyNames) > 0
       /\ SizeAt(S.propertySizes, 1) = 1
    THEN 1 ELSE 0

\* The property list returned, ll.414-423 ("null" is the null sentinel)
PropertiesMeta(S) ==
    [i \in 1..Len(S.propertyNames) |->
        [name |-> S.propertyNames[i],
         unit |-> GetAt(S.propertyUnits, i - 1),
         kind |-> GetAt(S.propertyKinds, i - 1),
         size |-> SizeAt(S.propertySizes, i),
         noData |-> IF Len(noDataValuesList) = 0 THEN "null"
                    ELSE SentinelOf(noDataValuesList, Len(S.propertyNames), i)]]

EmptyResult ==
    [points |-> <<>>, polys |-> <<>>, arrays |-> <<>>, scalars |-> 0,
     properties |-> <<>>,
     stats |-> [nVertices |-> 0, nTriangles |-> 0, skippedTriangles |-> 0]]

\* The code that follows the main loop, ll.333-434 (computeNormals = false)
Finalize ==
    IF Len(pts) = 0
    THEN /\ pc' = "noVertices"
         /\ UNCHANGED <<propertyNames, propertyUnits, propertyKinds,
                        propertySizes, propBuffers, propBuffersSet, result>>
    ELSE IF Len(tris) = 0
    THEN /\ pc' = "noTriangles"
         /\ UNCHANGED <<propertyNames, propertyUnits, propertyKinds,
                        propertySizes, propBuffers, propBuffersSet, result>>
    ELSE LET S1 == IF Len(propertyNames) > 0 /\ ~propBuffersSet
                   THEN ensurePropBuffers(Cur, 0) ELSE Cur
             S2 == NoDataPass(S1)
             \* Float32Array.from(propBuffers[p]) throws on undefined, l.381
             throws == S2.propBuffersSet
                       /\ Len(S2.propertyNames) > Len(S2.propBuffers)
         IN  /\ propertyNames' = S2.propertyNames
             /\ propertyUnits' = S2.propertyUnits
             /\ propertyKinds' = S2.propertyKinds
             /\ propertySizes' = S2.propertySizes
             /\ propBuffers' = S2.propBuffers
             /\ propBuffersSet' = S2.propBuffersSet
             /\ IF throws
                THEN /\ pc' = "TypeError"
                     /\ UNCHANGED result
                ELSE /\ pc' = "done"
                     /\ result' =
                          [points |-> pts, polys |-> tris,
                           arrays |-> PointDataArrays(S2),
                           scalars |-> ActiveScalars(S2),
                           properties |-> PropertiesMeta(S2),
                           stats |-> [nVertices |-> Len(pts),
                                      nTriangles |-> Len(tris),
                                      skippedTriangles |-> skippedTriangles]]

\* End that goes on with the scan
End_Continue(parts) ==
    /\ pc = "scan"
    /\ Classify(parts) = "END"
    /\ hist' = HistLine(hist, parts)
    /\ UNCHANGED <<pc, shareAtomPoints, noDataToNaN, propertyNames,
                   propertyUnits, propertyKinds, propertySizes,
                   noDataValuesList, headerUnits, headerKinds, idToIndex, pts,
                   tris, skippedTriangles, propBuffers, propBuffersSet, result>>
    /\ UNCHANGED <<headerName, PickerVars>>
    /\ NextLine

\* The line END, l.221
End(parts) ==
    /\ pc = "scan"
    /\ Classify(parts) = "END"
    /\ Finalize
    /\ hist' = HistLine(hist, parts)
    /\ UNCHANGED <<shareAtomPoints, noDataToNaN, noDataValuesList, headerUnits,
                   headerKinds, idToIndex, pts, tris, skippedTriangles>>
    /\ UNCHANGED <<headerName, PickerVars>>
    /\ UNCHANGED TextVars

\* The end of the text: li reaches lines.length, l.217
EndOfText ==
    /\ pc = "scan"
    /\ Finalize
    /\ UNCHANGED <<shareAtomPoints, noDataToNaN, noDataValuesList, headerUnits,
                   headerKinds, idToIndex, pts, tris, skippedTriangles, hist>>
    /\ UNCHANGED <<headerName, PickerVars>>
    /\ UNCHANGED TextVars

-----------------------------------------------------------------------------
(* PROPERTY_CLASS_HEADER blocks, ll.193-214 and 245-248.  The lines of a    *)
(* block are read by the loop of parsePropertyClassHeader, one per step,    *)
(* while pc = "header".                                                     *)

\* L.includes('}'), l.206, on the tokens of the line
HasBrace(parts) == \E i \in 1..Len(parts) : parts[i] \in {"}", "{}"}

\* unit[2] of l.207 for a line `unit: value` (undefined: no match)
UnitOf(parts) ==
    IF Len(parts) = 2 /\ parts[1] \in {"unit:", "UNIT:"} THEN parts[2]
    ELSE undefined

\* kind[2] of l.209 for a line `kind: value` (undefined: no match)
KindOf(parts) ==
    IF Len(parts) = 2 /\ parts[1] \in {"kind:", "KIND:"} THEN parts[2]
    ELSE undefined

\* The line PROPERTY_CLASS_HEADER name ..., ll.245-248 and 199-203: the
\* block is scanned from the next line on, whatever follows the name
PropertyClassHeader(parts) ==
    /\ pc = "scan"
    /\ Classify(parts) = "PROPERTY_CLASS_HEADER"
    /\ IF Len(parts) >= 2
       THEN /\ pc' = "header"
            /\ headerName' = parts[2]
       ELSE UNCHANGED <<pc, headerName>>
    /\ UNCHANGED <<shareAtomPoints, noDataToNaN, propertyNames, propertyUnits,
                   propertyKinds, propertySizes, noDataValuesList, headerUnits,
                   headerKinds, idToIndex, pts, tris, skippedTriangles,
                   propBuffers, propBuffersSet, result, hist>>
    /\ UNCHANGED PickerVars
    /\ NextLine

\* One line of the block, ll.204-212; the line with the brace is left to the
\* li++ of the main loop, which skips it
HeaderLine(parts) ==
    /\ pc = "header"
    /\ IF HasBrace(parts)
       THEN /\ pc' = "scan"
            /\ headerName' = ""
            /\ UNCHANGED <<headerUnits, headerKinds>>
       ELSE /\ headerUnits' = IF UnitOf(parts) # undefined
                              THEN MapSet(headerUnits, headerName, UnitOf(parts))
                              ELSE headerUnits
            /\ headerKinds' = IF KindOf(parts) # undefined
                              THEN MapSet(headerKinds, headerName, KindOf(parts))
                              ELSE headerKinds
            /\ UNCHANGED <<pc, headerName>>
    /\ UNCHANGED <<shareAtomPoints, noDataToNaN, propertyNames, propertyUnits,
                   propertyKinds, propertySizes, noDataValuesList, idToIndex,
                   pts, tris, skippedTriangles, propBuffers, propBuffersSet,
                   result, hist>>
    /\ UNCHANGED PickerVars
    /\ NextLine

\* The text ends inside a block: the loop of l.204 ends at lines.length and
\* so does the main loop
HeaderEndOfText ==
    /\ pc = "header"
    /\ Finalize
    /\ UNCHANGED <<shareAtomPoints, noDataToNaN, noDataValuesList, headerUnits,
                   headerKinds, idToIndex, pts, tris, skippedTriangles, hist,
                   headerName>>
    /\ UNCHANGED PickerVars
    /\ UNCHANGED TextVars

-----------------------------------------------------------------------------
(* The ScenePicker of ScenePicker.ts: the state in which none exists *)

Buttons == {"left", "middle", "right"}

ModifierKeys == {"shift", "ctrl", "alt", "meta"}

\* A callData without renderer, position or modifier key (also null: the
\* handler reads callData || {}, l.84)
NullCallData ==
    [pokedRenderer |-> "none", position |-> <<>>, shiftKey |-> FALSE,
     controlKey |-> FALSE, altKey |-> FALSE, metaKey |-> FALSE]

\* The history of a ScenePicker (written by its actions, never read by the
\* model of the code):
\*   press         the button and the callData of the last press event the
\*                 interactor dispatched (button "none": no press yet)
\*   picks         the number of runs of the injected picker in that press
\*   delivered     the calls of listeners in that press, in order, each with
\*                 the listener and the event it received
\*   handles       the listeners for which onPick returned an unsubscriber
\*   removed       the listeners whose unsubscriber was called and that were
\*                 not registered again since
\*   unsubscribed  the subscriptions whose unsubscriber dispose() called, one
\*                 entry per call
\*   disposed      the listeners that were registered when dispose() ran
\*                 and that were not registered again since
\*   wasDisposed   dispose() ran
\*   given         the button option the constructor was given, undefined
\*                 when it was given none
LogInit ==
    [press |-> [button |-> "none", callData |-> NullCallData], picks |-> 0,
     delivered |-> <<>>, handles |-> {}, removed |-> {},
     unsubscribed |-> <<>>, disposed |-> {}, wasDisposed |-> FALSE,
     given |-> undefined]

\* The fields of a GenericVTKPicker (unnamed/part_000) as its constructor
\* leaves them for a configuration: config (type, modifierKey and
\* showRayDuringDrag, ll.79-86), isMouseDown, lastPickResult ("null", or
\* whether the pick succeeded) and currentModifierPressed (ll.61-63), and
\* the visibility of rayActor and of pointActor (ll.122, 135)
GenericPickerOf(type, modifierKey, showRayDuringDrag) ==
    [config |-> [type |-> type, modifierKey |-> modifierKey,
                 showRayDuringDrag |-> showRayDuringDrag],
     isMouseDown |-> FALSE, lastPickResult |-> "null",
     currentModifierPressed |-> FALSE,
     rayActor |-> FALSE, pointActor |-> FALSE]

\* No GenericVTKPicker is in use: one with the default configuration that
\* no event reaches
NoGenericPicker == GenericPickerOf("cell", "none", TRUE)

NoPicker ==
    /\ opts = [button |-> "left", requireModifiers |-> EmptyMap]
    /\ subUnsub = <<>>
    /\ listeners = <<>>
    /\ interactor = [b \in Buttons |-> <<>>]
    /\ log = LogInit
    /\ genericPicker = NoGenericPicker

-----------------------------------------------------------------------------
(* The state after construction, ll.54-83 *)

InitContainers ==
    /\ pc = "scan"
    /\ propertyNames = <<>>
    /\ propertyUnits = <<>>
    /\ propertyKinds = <<>>
    /\ propertySizes = <<>>
    /\ noDataValuesList = <<>>
    /\ headerUnits = EmptyMap
    /\ headerKinds = EmptyMap
    /\ idToIndex = EmptyMap
    /\ pts = <<>>
    /\ tris = <<>>
    /\ skippedTriangles = 0
    /\ propBuffers = <<>>
    /\ propBuffersSet = FALSE
    /\ result = EmptyResult
    /\ headerName = ""

\* The state in which a parse starts, no ScenePicker existing
InitState ==
    /\ InitContainers
    /\ NoPicker
    /\ lines = <<>>
    /\ li = NoText

-----------------------------------------------------------------------------
(* Spec: the scan of the texts made of geometry records (VRTX/PVRTX without *)
(* property columns, ATOM, TRGL) and of the PROPERTIES declaration, in both *)
(* ATOM modes.                                                              *)

IdTokens == {"1", "2", "3"}

GeomLines ==
    {<<>>, <<"TFACE">>, <<"END">>, <<"PROPERTIES", "a">>}
    \cup {<<"VRTX", id, "0", "0", "0">> : id \in IdTokens}
    \cup {<<"PVRTX", "01", "1.0", "0", "0">>, <<"VRTX", "x", "0", "0", "0">>,
          <<"VRTX", "1", "0", "0">>}
    \cup {<<"ATOM", id, ref>> : id \in IdTokens, ref \in IdTokens}
    \cup {<<"TRGL", t[1], t[2], t[3]>> :
            t \in {u \in IdTokens \X IdTokens \X IdTokens :
                     u[1] # u[2] /\ u[2] # u[3] /\ u[3] # u[1]}}
    \cup {<<"TRGL", "1", "1", "2">>, <<"TRGL", "1", "2", "1">>,
          <<"TRGL", "2", "1", "1">>, <<"trgl", "1", "2", "x">>,
          <<"TRGL", "1", "2">>}

Init ==
    /\ InitState
    /\ shareAtomPoints \in BOOLEAN
    /\ noDataToNaN = TRUE
    /\ hist = HistInit

Next ==
    \/ \E parts \in GeomLines :
          \/ Ignore(parts)
          \/ End(parts)
          \/ Properties(parts)
          \/ Vrtx(parts)
          \/ Atom(parts)
          \/ Trgl(parts)
    \/ EndOfText

Spec == Init /\ [][Next]_vars

-----------------------------------------------------------------------------
(* Properties of the scan of geometry records, checked under Spec *)

\* The TRGL, the ATOM and the vertex records among the lines of Spec
GeomTrglLines == {parts \in GeomLines : Classify(parts) = "TRGL"}
GeomAtomLines == {parts \in GeomLines : Classify(parts) = "ATOM"}
GeomVrtxLines == {parts \in GeomLines : Classify(parts) = "VRTX"}

\* The keys of the three ids of a TRGL record
TrglKeys(parts) == {parseInt(parts[2]), parseInt(parts[3]), parseInt(parts[4])}

\* Everything the scan has built but the skip counter
ScanState == <<pc, propertyNames, propertyUnits, propertyKinds, propertySizes,
               noDataValuesList, headerUnits, headerKinds, idToIndex, pts,
               tris, propBuffers, propBuffersSet, result>>

\* C1: the result of a well-formed input (every VRTX/PVRTX record valid,
\* every TRGL record with ids that resolve to three distinct indices when it
\* is processed) reports nVertices = the number of vertex records + the
\* number of duplicating ATOM records, nTriangles = the number of TRGL
\* records and skippedTriangles = 0; with no property declaration and no
\* property column the property list returned is empty.
C1_WellFormedStats ==
    (pc = "done" /\ hist.wellFormed) =>
        /\ result.stats.nVertices = hist.vertexRecords + hist.dupAtoms
        /\ result.stats.nTriangles = hist.trglRecords
        /\ result.stats.skippedTriangles = 0
        /\ (~hist.propSeen => result.properties = <<>>)

\* A well-formed input with two vertex records, a duplicating ATOM and a
\* triangle has been parsed
C1_Witness ==
    /\ pc = "done" /\ hist.wellFormed /\ ~hist.propSeen
    /\ hist.vertexRecords = 2 /\ hist.dupAtoms = 1 /\ hist.trglRecords = 1

\* C2: every triangle of the triangle list, and of the mesh returned, is made
\* of three pairwise distinct indices of points appended so far.
C2_TrianglesValid ==
    /\ \A t \in 1..Len(tris) :
          /\ Cardinality({tris[t][1], tris[t][2], tris[t][3]}) = 3
          /\ {tris[t][1], tris[t][2], tris[t][3]} \subseteq 0..(Len(pts) - 1)
    /\ pc = "done" =>
          \A t \in 1..Len(result.polys) :
             /\ Cardinality({result.polys[t][1], result.polys[t][2],
                             result.polys[t][3]}) = 3
             /\ {result.polys[t][1], result.polys[t][2], result.polys[t][3]}
                   \subseteq 0..(result.stats.nVertices - 1)

\* A triangle was retained while ids share an index and a triangle was skipped
C2_Witness ==
    /\ Len(tris) = 1 /\ skippedTriangles = 1
    /\ \E j \in DOMAIN idToIndex, k \in DOMAIN idToIndex :
          j # k /\ idToIndex[j] = idToIndex[k]

\* C3: a TRGL record one of whose ids has no index when it is processed adds
\* one to skippedTriangles and changes nothing else.
C3_UnresolvedSkipped ==
    [][\A parts \in GeomTrglLines :
          (Trgl(parts) /\ Len(parts) >= 4
             /\ ~(TrglKeys(parts) \subseteq DOMAIN idToIndex))
          => (skippedTriangles' = skippedTriangles + 1 /\ UNCHANGED ScanState)]_vars

\* A TRGL record with an unresolved id was processed after two vertices
C3_Witness ==
    /\ hist.trglUnresolved = 1 /\ skippedTriangles = 1 /\ Len(pts) = 2

\* C4: a TRGL record whose ids all resolve, two of them to one index, adds
\* one to skippedTriangles and leaves the triangle list unchanged.
C4_DegenerateSkipped ==
    [][\A parts \in GeomTrglLines :
          (Trgl(parts) /\ Len(parts) >= 4
             /\ TrglKeys(parts) \subseteq DOMAIN idToIndex
             /\ \/ idToIndex[parseInt(parts[2])] = idToIndex[parseInt(parts[3])]
                \/ idToIndex[parseInt(parts[3])] = idToIndex[parseInt(parts[4])]
                \/ idToIndex[parseInt(parts[4])] = idToIndex[parseInt(parts[2])])
          => (skippedTriangles' = skippedTriangles + 1 /\ tris' = tris)]_vars

\* A TRGL record was skipped as degenerate while the three ids of the input
\* are defined and two of them share an index
C4_Witness ==
    /\ hist.trglDegenerate = 1 /\ skippedTriangles = 1 /\ shareAtomPoints
    /\ DOMAIN idToIndex = {"1", "2", "3"}
    /\ Cardinality({idToIndex[k] : k \in DOMAIN idToIndex}) = 2

\* C5: a TRGL record is resolved against the id table of the moment it is
\* processed: the triangles retained are the TRGL records whose ids resolved
\* to distinct indices then, and a record that did not resolve then stays
\* counted as skipped whatever is defined later.
C5_ResolvedWhenProcessed ==
    /\ Len(tris) = hist.trglGood
    /\ skippedTriangles >= hist.trglUnresolved
    /\ pc = "done" => /\ result.stats.nTriangles = hist.trglGood
                      /\ result.stats.skippedTriangles >= hist.trglUnresolved

\* The parse ended without a triangle although a TRGL record was skipped for
\* an unresolved id and the three ids of the input were defined after it
C5_Witness ==
    /\ pc = "noTriangles" /\ hist.trglUnresolved = 1 /\ hist.trglGood = 0
    /\ DOMAIN idToIndex = {"1", "2", "3"}
    /\ Cardinality({idToIndex[k] : k \in DOMAIN idToIndex}) = 3

\* C8 as stated: the new id of an ATOM record dropped for an unresolved refId
\* is never resolved afterwards.
C8_PermanentlyUnresolved ==
    hist.droppedAtom # NaN => hist.droppedAtom \notin DOMAIN idToIndex

\* C8, amended: an ATOM record whose refId has no index changes nothing (no
\* vertex, no mapping, no counter), and an id gets an index only by a later
\* VRTX/PVRTX or ATOM record that carries it as its (new) id.
C8_DroppedUntilDefined ==
    [][/\ \A parts \in GeomAtomLines :
             (Atom(parts) /\ Len(parts) >= 3
                /\ parseInt(parts[3]) \notin DOMAIN idToIndex)
             => UNCHANGED <<ScanState, skippedTriangles>>
       /\ \A k \in (DOMAIN idToIndex') \ (DOMAIN idToIndex) :
             \E parts \in GeomVrtxLines \cup GeomAtomLines :
                /\ Len(parts) >= 3 /\ parseInt(parts[2]) = k
                /\ Vrtx(parts) \/ Atom(parts)]_vars

\* An ATOM record was dropped, a later TRGL record was skipped and the new
\* id of the ATOM has been defined since
C8_Witness ==
    /\ hist.droppedAtom # NaN /\ hist.droppedAtom \in DOMAIN idToIndex
    /\ hist.trglUnresolved = 1

-----------------------------------------------------------------------------
(* SpecProps: the scan of the texts that declare properties (PROPERTIES,    *)
(* ESIZES), give vertices with zero to two property columns under the id 1, *)
(* define the ids 2 and 3 by ATOM records and close the triangle 1 2 3, in  *)
(* both ATOM modes.  These behaviours keep no history.                      *)

PropLines ==
    {<<"END">>, <<"PROPERTIES", "a">>, <<"PROPERTIES", "a", "b">>,
     <<"ESIZES", "2">>, <<"ESIZES", "1">>, <<"TRGL", "1", "2", "3">>,
     <<"VRTX", "1", "0", "0", "0">>, <<"VRTX", "1", "0", "0", "0", "5">>,
     <<"VRTX", "1", "1", "0", "0", "5", "7">>,
     <<"ATOM", "3", "1">>, <<"ATOM", "3", "2">>, <<"ATOM", "2", "1">>}

InitProps ==
    /\ InitState
    /\ shareAtomPoints \in BOOLEAN
    /\ noDataToNaN = TRUE
    /\ hist = HistOff

NextProps ==
    \/ \E parts \in PropLines :
          \/ End(parts)
          \/ Properties(parts)
          \/ Esizes(parts)
          \/ Vrtx(parts)
          \/ Atom(parts)
          \/ Trgl(parts)
    \/ EndOfText

SpecProps == InitProps /\ [][NextProps]_vars

-----------------------------------------------------------------------------
(* Properties of the property buffers, checked under SpecProps *)

\* The ATOM records among the lines of SpecProps
PropAtomLines == {parts \in PropLines : Classify(parts) = "ATOM"}

\* A buffer entry as the Float32Array of the result holds it
AsFloat(v) == IF v = undefined THEN NaN ELSE v

\* C6: in share mode an ATOM record with a resolvable refId maps its new id
\* to the index of refId and leaves the points (their number and positions)
\* and the property buffers unchanged.
C6_ShareAtom ==
    [][\A parts \in PropAtomLines :
          (Atom(parts) /\ Len(parts) >= 3 /\ shareAtomPoints
             /\ parseInt(parts[3]) \in DOMAIN idToIndex)
          => /\ parseInt(parts[2]) \in DOMAIN idToIndex'
             /\ idToIndex'[parseInt(parts[2])] = idToIndex[parseInt(parts[3])]
             /\ UNCHANGED <<pts, propBuffers, propBuffersSet>>]_vars

\* In share mode the ids 2 and 3, which only ATOM records define, are
\* defined while a property buffer holds a value
C6_Witness ==
    /\ shareAtomPoints /\ pc = "scan"
    /\ {"2", "3"} \subseteq DOMAIN idToIndex
    /\ propBuffersSet /\ Len(pts) >= 2
    /\ \E p \in 1..Len(propBuffers) : \E i \in 1..Len(propBuffers[p]) :
          propBuffers[p][i] = "5"

\* C7 as stated: in duplicate mode an ATOM record with a resolvable refId
\* appends one point at the position of refId's point, maps its new id to
\* it, gives it, for every property buffer and component, the value of
\* refId's point, and changes no value of any earlier point.
C7_DuplicateAtom ==
    [][\A parts \in PropAtomLines :
          (Atom(parts) /\ Len(parts) >= 3 /\ ~shareAtomPoints
             /\ parseInt(parts[3]) \in DOMAIN idToIndex)
          => LET r == idToIndex[parseInt(parts[3])]
                 n == Len(pts)
             IN  /\ Len(pts') = n + 1
                 /\ SubSeq(pts', 1, n) = pts
                 /\ pts'[n + 1] = pts[r + 1]
                 /\ parseInt(parts[2]) \in DOMAIN idToIndex'
                 /\ idToIndex'[parseInt(parts[2])] = n
                 /\ propBuffersSet =>
                      \A p \in 1..Len(propBuffers) :
                         /\ Len(propBuffers') = Len(propBuffers)
                         /\ \A c \in 0..(SizeAt(propertySizes, p) - 1) :
                               AsFloat(GetAt(propBuffers'[p],
                                             n * SizeAt(propertySizes, p) + c))
                               = AsFloat(GetAt(propBuffers[p],
                                               r * SizeAt(propertySizes, p) + c))
                         /\ \A i \in 1..Len(propBuffers[p]) :
                               propBuffers'[p][i] = propBuffers[p][i]]_vars

\* C9 as stated: at the end of the scan the parse fails with one of the two
\* structural errors, returning nothing, when no point or no triangle was
\* kept, and returns a result otherwise.
C9_StructuralOutcome ==
    [][EndOfText =>
          /\ (Len(pts) = 0 \/ Len(tris) = 0)
                => (pc' \in {"noVertices", "noTriangles"} /\ UNCHANGED result)
          /\ (Len(pts) > 0 /\ Len(tris) > 0) => pc' = "done"]_vars

\* C10 as stated: every property array of a result has length
\* nVertices x the size reported for the property.
C10_BufferLengths ==
    pc = "done" =>
        /\ Len(result.arrays) = Len(result.properties)
        /\ \A p \in 1..Len(result.arrays) :
              Len(result.arrays[p].values)
              = result.stats.nVertices * result.properties[p].size

-----------------------------------------------------------------------------
(* SpecCols: the scan of the texts that declare the properties vec and scal *)
(* with the sizes 2 and 1 (or declare nothing), give vertices with zero to  *)
(* three property columns and close the triangle 1 2 3.                     *)

ColumnTokens == <<"5", "7", "2">>

ColLines ==
    {<<"END">>, <<"PROPERTIES", "vec", "scal">>, <<"ESIZES", "2", "1">>,
     <<"TRGL", "1", "2", "3">>}
    \cup {<<"VRTX", "1", "0", "0", "0">> \o SubSeq(ColumnTokens, 1, k) : k \in 0..3}
    \cup {<<"VRTX", "2", "0", "0", "0">> \o SubSeq(ColumnTokens, 1, k) : k \in {1, 3}}
    \cup {<<"VRTX", "3", "0", "0", "0">> \o SubSeq(ColumnTokens, 1, k) : k \in {2, 3}}

InitCols ==
    /\ InitState
    /\ shareAtomPoints = TRUE
    /\ noDataToNaN = TRUE
    /\ hist = HistTrack

NextCols ==
    \/ \E parts \in ColLines :
          \/ End(parts)
          \/ Properties(parts)
          \/ Esizes(parts)
          \/ Vrtx(parts)
          \/ Trgl(parts)
    \/ EndOfText

SpecCols == InitCols /\ [][NextCols]_vars

-----------------------------------------------------------------------------
(* Properties of the property columns, checked under SpecCols *)

\* The vertex records among the lines of SpecCols that carry columns
ColVrtxLines == {parts \in ColLines : Classify(parts) = "VRTX" /\ Len(parts) > 5}

\* C11 as stated: when PROPERTIES declared n names and ESIZES n sizes before
\* the first vertex record and every vertex record carried as many columns
\* as the sum of the sizes, the properties of the result are the n declared
\* names, in order, with the declared sizes, and the array of each has
\* nVertices x size values.
C11_DeclaredSchema ==
    (/\ pc = "done"
     /\ hist.columnsMatch
     /\ Len(hist.declNames) > 0
     /\ Len(hist.declSizes) = Len(hist.declNames))
    => /\ Len(result.properties) = Len(hist.declNames)
       /\ \A i \in 1..Len(result.properties) :
             /\ i <= Len(hist.declNames)
             /\ result.properties[i].name = hist.declNames[i]
             /\ result.properties[i].size = hist.declSizes[i]
       /\ \A i \in 1..Len(hist.declNames) :
             /\ i <= Len(result.arrays)
             /\ Len(result.arrays[i].values)
                = result.stats.nVertices * hist.declSizes[i]

\* C12: a vertex record that gets the index v and is processed to its end
\* stores the value of component c of property p, read from its columns in
\* order, at offset v x componentCount(p) + c of the buffer of p; the buffer
\* of a single-component property has that value as its entry v, the last
\* one, and, when the property was in the schema before the record, keeps
\* the entries of the earlier vertices.
C12_ValueOffsets ==
    [][\A parts \in ColVrtxLines :
          (Vrtx(parts) /\ pc' = "scan")
          => LET v == Len(pts)
                 values == PropertyColumns(parts)
             IN  /\ Len(pts') = v + 1
                 /\ Len(propBuffers') >= Len(propertyNames')
                 /\ \A p \in 1..Len(propertyNames') :
                       LET comp == SizeAt(propertySizes', p)
                           cursor == CursorAt(propertySizes', p)
                       IN  /\ \A c \in 0..(comp - 1) :
                                 cursor + c < Len(values)
                                 => GetAt(propBuffers'[p], v * comp + c)
                                    = values[cursor + c + 1]
                           /\ comp = 1
                              => /\ Len(propBuffers'[p]) = v + 1
                                 /\ (propBuffersSet /\ p <= Len(propBuffers)
                                       /\ p <= Len(propertyNames))
                                     => SubSeq(propBuffers'[p], 1, v)
                                        = propBuffers[p]]_vars

\* A second vertex was given the two components of vec, at the offsets 2 and
\* 3, and the value of the single-component scal, at the offset 1
C12_Witness ==
    /\ pc = "scan" /\ propBuffersSet /\ Len(pts) = 2
    /\ Len(propertySizes) >= 2 /\ propertySizes[1] = 2 /\ propertySizes[2] = 1
    /\ SubSeq(propBuffers[1], 3, 4) = <<"5", "7">>
    /\ propBuffers[2][2] = "2"

\* C13 as stated: a vertex record with more columns (m) than the schema has
\* properties (n) appends the single-component properties prop_(n+1) ..
\* prop_m; each of them holds NaN for every earlier vertex and the column of
\* its position for the vertex of the record, and the values stored for the
\* n properties the schema had are unchanged.
C13_SchemaExtension ==
    [][\A parts \in ColVrtxLines :
          (Vrtx(parts) /\ pc' = "scan"
             /\ Len(PropertyColumns(parts)) > Len(propertyNames))
          => LET v == Len(pts)
                 values == PropertyColumns(parts)
                 n == Len(propertyNames)
                 m == Len(values)
             IN  /\ propertyNames'
                    = propertyNames \o [i \in 1..(m - n) |-> AutoName(n + i)]
                 /\ Len(propBuffers') >= m
                 /\ \A p \in (n + 1)..m :
                       /\ SizeAt(propertySizes', p) = 1
                       /\ Len(propBuffers'[p]) = v + 1
                       /\ \A j \in 1..v : propBuffers'[p][j] = NaN
                       /\ propBuffers'[p][v + 1] = values[p]
                 /\ propBuffersSet
                    => \A p \in 1..n :
                          /\ p <= Len(propBuffers)
                          /\ SubSeq(propBuffers'[p], 1, Len(propBuffers[p]))
                             = propBuffers[p]]_vars

-----------------------------------------------------------------------------
(* SpecNoData: the scan of the texts that declare sentinels (one, two,      *)
(* three, or none that is finite), give vertices whose columns hold the     *)
(* sentinels and another value, and close the triangle 1 2 3, with the      *)
(* option noDataToNaN on and off.                                           *)

NoDataLines ==
    {<<"END">>, <<"TRGL", "1", "2", "3">>,
     <<"NO_DATA_VALUES", "-9999">>, <<"NO_DATA_VALUE", "-1">>,
     <<"NO_DATA_VALUES", "-9999", "-1">>, <<"NO_DATA_VALUES", "x">>,
     <<"NO_DATA_VALUES", "5", "-9999", "-1">>,
     <<"VRTX", "1", "0", "0", "0", "-9999", "-1">>,
     <<"VRTX", "2", "0", "0", "0", "-1", "-9999">>,
     <<"VRTX", "3", "0", "0", "0", "5">>,
     <<"VRTX", "3", "0", "0", "0">>}

InitNoData ==
    /\ InitState
    /\ shareAtomPoints = TRUE
    /\ noDataToNaN \in BOOLEAN
    /\ hist = HistTrack

NextNoData ==
    \/ \E parts \in NoDataLines :
          \/ End(parts)
          \/ NoDataValues(parts)
          \/ Vrtx(parts)
          \/ Trgl(parts)
    \/ EndOfText

SpecNoData == InitNoData /\ [][NextNoData]_vars

-----------------------------------------------------------------------------
(* Properties of the no-data pass, checked under SpecNoData *)

\* The buffer raw with NaN in place of its entries equal to nd
Substituted(raw, nd) ==
    [i \in 1..Len(raw) |-> IF raw[i] = nd THEN NaN ELSE raw[i]]

\* The vertex records give the ids 1, 2 and 3, in this order, the indices 0,
\* 1 and 2: the first column then holds -9999, -1 and 5
ThreeVertices ==
    /\ Len(pts) = 3
    /\ DOMAIN idToIndex = {"1", "2", "3"}
    /\ idToIndex["1"] = 0 /\ idToIndex["2"] = 1 /\ idToIndex["3"] = 2

\* C14: when the parse returns with a single sentinel declared, every
\* buffer has NaN where it held the sentinel and is unchanged elsewhere if
\* noDataToNaN is on, and is unchanged everywhere, the sentinel included, if
\* it is off; the arrays of the result are these buffers.
C14_GlobalSentinel ==
    [][(pc = "scan" /\ pc' = "done" /\ Len(noDataValuesList) = 1
          /\ propBuffersSet)
       => /\ Len(result'.arrays) = Len(propertyNames)
          /\ Len(propBuffers') = Len(propBuffers)
          /\ \A p \in 1..Len(result'.arrays) :
                /\ propBuffers'[p]
                   = IF noDataToNaN
                     THEN Substituted(propBuffers[p], noDataValuesList[1])
                     ELSE propBuffers[p]
                /\ result'.arrays[p].values
                   = Float32ArrayFrom(propBuffers'[p])]_vars

\* With the sentinel -9999 and the option on, the first array of the result
\* is NaN, -1, 5: the first vertex held -9999 there
C14_Witness ==
    /\ pc = "done" /\ noDataToNaN /\ ThreeVertices
    /\ noDataValuesList = <<"-9999">>
    /\ Len(result.arrays) = 2
    /\ result.arrays[1].values = <<NaN, "-1", "5">>

\* C15: when the parse returns with normalization on, the buffer of property
\* p has NaN in place of the entries equal to entry p of the sentinel list,
\* and of no other, if the list has as many entries as the schema has
\* properties; otherwise in place of the entries equal to the first entry.
C15_PerPropertySentinel ==
    [][(pc = "scan" /\ pc' = "done" /\ noDataToNaN /\ propBuffersSet
          /\ Len(noDataValuesList) > 0)
       => \A p \in 1..Len(propertyNames) :
             /\ p <= Len(propBuffers')
             /\ propBuffers'[p]
                = Substituted(propBuffers[p],
                              IF Len(noDataValuesList) = Len(propertyNames)
                              THEN noDataValuesList[p]
                              ELSE noDataValuesList[1])
             /\ result'.arrays[p].values = Float32ArrayFrom(propBuffers'[p])]_vars

\* With the sentinels -9999 and -1 for two properties, the first array keeps
\* the -1 of the second vertex and the second array keeps its -9999
C15_Witness ==
    /\ pc = "done" /\ noDataToNaN /\ ThreeVertices
    /\ noDataValuesList = <<"-9999", "-1">>
    /\ Len(result.arrays) = 2
    /\ result.arrays[1].values = <<NaN, "-1", "5">>
    /\ result.arrays[2].values = <<NaN, "-9999", NaN>>

\* The NO_DATA_VALUES records among the lines of SpecNoData
NoDataDeclLines == {parts \in NoDataLines : Classify(parts) = "NO_DATA_VALUES"}

\* C16: a NO_DATA_VALUES record changes nothing but the sentinel list, which
\* becomes the list of its finite values whatever the list was; no record of
\* the scan rewrites an entry a buffer holds; and the step that ends the scan
\* substitutes NaN for the sentinels of the list as it stands then, the one
\* of the last such record, whatever its place among the records.
C16_AfterScanOnly ==
    [][/\ \A parts \in NoDataDeclLines :
             NoDataValues(parts)
             => /\ Len(NoDataOf(parts)) > 0
                   => noDataValuesList' = NoDataOf(parts)
                /\ UNCHANGED <<pc, propertyNames, propertyUnits, propertyKinds,
                               propertySizes, idToIndex, pts, tris,
                               skippedTriangles, propBuffers, propBuffersSet,
                               result>>
       /\ (pc' = "scan" /\ propBuffersSet)
          => \A p \in 1..Len(propBuffers) :
                /\ p <= Len(propBuffers')
                /\ SubSeq(propBuffers'[p], 1, Len(propBuffers[p]))
                   = propBuffers[p]
       /\ (pc = "scan" /\ pc' = "done" /\ propBuffersSet)
          => \A p \in 1..Len(propertyNames) :
                propBuffers'[p]
                = IF noDataToNaN /\ Len(noDataValuesList) > 0
                  THEN Substituted(propBuffers[p],
                                   SentinelOf(noDataValuesList,
                                              Len(propertyNames), p))
                  ELSE propBuffers[p]]_vars

\* The scan goes on with the sentinel -9999 declared, normalization on, and
\* the -9999 of the first vertex still in the first buffer
C16_Witness ==
    /\ pc = "scan" /\ noDataToNaN /\ ThreeVertices
    /\ noDataValuesList = <<"-9999">>
    /\ propBuffers[1][1] = "-9999"

-----------------------------------------------------------------------------
(* SpecDecl: the scan of the texts whose keywords stand in upper and in     *)
(* lower case, the terminator included, with PROPERTIES records (two name   *)
(* lists and an empty one), a PROPERTY_CLASSES record, an ESIZES and a      *)
(* NO_DATA_VALUES record, in share mode.                                    *)

DeclLines ==
    {<<"END">>, <<"end">>,
     <<"PROPERTIES", "a", "b">>, <<"properties", "c">>, <<"PROPERTIES">>,
     <<"property_classes", "d", "e">>,
     <<"esizes", "2">>, <<"no_data_values", "5">>,
     <<"vrtx", "1", "0", "0", "0">>, <<"VRTX", "2", "0", "0", "0", "5">>,
     <<"pvrtx", "3", "0", "0", "0">>, <<"atom", "3", "2">>,
     <<"trgl", "1", "2", "3">>, <<"TRGL", "1", "2", "3">>}

InitDecl ==
    /\ InitState
    /\ shareAtomPoints = TRUE
    /\ noDataToNaN = TRUE
    /\ hist = HistTrack

NextDecl ==
    \/ \E parts \in DeclLines :
          \/ Ignore(parts)
          \/ End(parts)
          \/ Properties(parts)
          \/ PropertyClasses(parts)
          \/ NoDataValues(parts)
          \/ Esizes(parts)
          \/ Vrtx(parts)
          \/ Atom(parts)
          \/ Trgl(parts)
    \/ EndOfText

SpecDecl == InitDecl /\ [][NextDecl]_vars

-----------------------------------------------------------------------------
(* Properties of the terminator, of the keywords and of the name list,      *)
(* checked under SpecDecl                                                   *)

\* C17: the line END ends the scan with the result of the records before it
\* (the points, the triangles and the skip counter of that moment), and once
\* it was processed no step changes the points, the id table, the triangles,
\* the skip counter, the schema or the sentinels.
C17_EndStopsScan ==
    [][/\ \A parts \in DeclLines :
             End(parts)
             => /\ pc' # "scan"
                /\ hist'.ended
                /\ pc' = "done"
                   => /\ result'.points = pts
                      /\ result'.polys = tris
                      /\ result'.stats.skippedTriangles = skippedTriangles
                      /\ Len(result'.properties) = Len(propertyNames)
       /\ hist.ended
          => UNCHANGED <<pts, idToIndex, tris, skippedTriangles, propertyNames,
                         propertySizes, noDataValuesList, propBuffers, result,
                         pc>>]_vars

\* The line END was processed with three points and a triangle, and the
\* parse returned
C17_Witness ==
    /\ hist.ended /\ pc = "done"
    /\ Len(result.points) = 3 /\ Len(result.polys) = 1

\* The first token of a line of DeclLines put in upper case
UpperLine(parts) ==
    IF Len(parts) = 0 THEN parts ELSE <<Upper(parts[1])>> \o Tail(parts)

\* C18: a keyword is recognized whatever its case: a line is handled as the
\* line with its keyword in upper case is, and the terminator written end
\* stops the scan as END does.
C18_CaseInsensitive ==
    /\ \A parts \in DeclLines :
          Upper(parts[1]) # "END"
          => Classify(parts) = Classify(UpperLine(parts))
    /\ hist.lowerEnd => pc # "scan"

\* C19: a PROPERTIES record that carries names makes the name list equal to
\* its names, none of the names held before retained; a record without
\* names leaves the list as it is.
C19_PropertiesReplaces ==
    [][\A parts \in DeclLines :
          Properties(parts)
          => propertyNames' = IF Len(parts) > 1 THEN Tail(parts)
                              ELSE propertyNames]_vars

\* The names a, b were declared and both buffers allocated, then a second
\* record put the single name c in their place
C19_Witness ==
    /\ pc = "scan"
    /\ propertyNames = <<"c">>
    /\ propBuffersSet /\ Len(propBuffers) = 2
    /\ hist.declNames = <<"c">>

\* C20: a PROPERTY_CLASSES record gives its names to the list when the list
\* is empty, and never changes the list once a PROPERTIES record declared
\* names; a PROPERTIES record that follows an adopted PROPERTY_CLASSES record
\* replaces the adopted names.
C20_PropertyClassesFallback ==
    [][\A parts \in DeclLines :
          /\ PropertyClasses(parts)
             => /\ hist.declared => propertyNames' = propertyNames
                /\ (Len(propertyNames) = 0 /\ Len(parts) > 1)
                   => propertyNames' = Tail(parts)
                /\ Len(propertyNames) > 0 => propertyNames' = propertyNames
          /\ (Properties(parts) /\ Len(parts) > 1
              /\ propertyNames = <<"d", "e">>)
             => propertyNames' = Tail(parts)]_vars

\* The names of a PROPERTY_CLASSES record were adopted, no PROPERTIES record
\* having declared names
C20_Witness ==
    /\ pc = "scan"
    /\ propertyNames = <<"d", "e">>
    /\ ~hist.declared

-----------------------------------------------------------------------------
(* SpecSizes: the scan of the texts made of a PROPERTIES record, of ESIZES  *)
(* records (positive, zero, negative and non-numeric entries, more entries  *)
(* than names, none), of vertex records with zero to three property         *)
(* columns, of ATOM records in duplicate mode and of a TRGL record.         *)

SizeLines ==
    {<<"END">>, <<"PROPERTIES", "a", "b">>,
     <<"ESIZES">>, <<"ESIZES", "2">>, <<"ESIZES", "0", "2">>,
     <<"ESIZES", "-1", "2">>, <<"ESIZES", "x", "2">>,
     <<"ESIZES", "2", "1", "2">>,
     <<"VRTX", "1", "0", "0", "0">>, <<"VRTX", "2", "0", "0", "0", "5">>,
     <<"VRTX", "3", "0", "0", "0", "5", "7", "2">>,
     <<"ATOM", "2", "1">>, <<"ATOM", "3", "2">>,
     <<"TRGL", "1", "2", "3">>}

InitSizes ==
    /\ InitState
    /\ shareAtomPoints = FALSE
    /\ noDataToNaN = TRUE
    /\ hist = HistOff

NextSizes ==
    \/ \E parts \in SizeLines :
          \/ End(parts)
          \/ Properties(parts)
          \/ Esizes(parts)
          \/ Vrtx(parts)
          \/ Atom(parts)
          \/ Trgl(parts)
    \/ EndOfText

SpecSizes == InitSizes /\ [][NextSizes]_vars

-----------------------------------------------------------------------------
(* Properties of the component counts and of the schema, checked under      *)
(* SpecSizes                                                                *)

SizeDeclLines == {parts \in SizeLines : Classify(parts) = "ESIZES"}

\* The component count an ESIZES entry stands for: the entry when it is a
\* positive integer, 1 otherwise
EntrySize(tok) ==
    CASE tok = "1" -> 1
      [] tok = "2" -> 2
      [] OTHER -> 1

\* C21: an ESIZES record with entries sets the declared sizes to its entries,
\* each positive integer as it is and every other entry as 1; before the
\* buffers exist no other record changes the declared sizes; and the step
\* that creates the buffers while names are declared gives declared property
\* i the declared size i, or 1 when there is none, keeps the declared names
\* at their places, and leaves as many sizes and buffers as there are names,
\* whatever the number of declared sizes.
C21_SizesAtMaterialization ==
    [][/\ \A parts \in SizeDeclLines :
             (Esizes(parts) /\ Len(parts) > 1)
             => propertySizes' = [i \in 1..(Len(parts) - 1) |->
                                    EntrySize(parts[i + 1])]
       /\ (~propBuffersSet /\ ~propBuffersSet'
           /\ propertySizes' # propertySizes)
          => \E parts \in SizeDeclLines : Esizes(parts)
       /\ (~propBuffersSet /\ propBuffersSet' /\ Len(propertyNames) > 0)
          => /\ pc' \in {"scan", "done"}
             /\ \A i \in 1..Len(propertyNames) :
                   /\ propertyNames'[i] = propertyNames[i]
                   /\ propertySizes'[i] = SizeAt(propertySizes, i)
                   /\ pc' = "done" => result'.properties[i].size
                                         = SizeAt(propertySizes, i)
             /\ Len(propertySizes') = Len(propertyNames')
             /\ Len(propBuffers') = Len(propertyNames')
             /\ \A i \in (Len(propertyNames) + 1)..Len(propertyNames') :
                   propertySizes'[i] = 1]_vars

\* The buffers of a, b exist with the sizes 2, 1 after ESIZES 2 1 2 declared
\* three sizes for the two names
C21_Witness ==
    /\ pc = "scan"
    /\ propBuffersSet
    /\ propertyNames = <<"a", "b">>
    /\ propertySizes = <<2, 1>>

\* C22: once the buffers exist, every step keeps the names the schema holds
\* at their places, adds only names prop_k at the end, and leaves as many
\* names as buffers.
C22_SchemaOnlyGrows ==
    [][propBuffersSet
       => /\ Len(propertyNames) <= Len(propertyNames')
          /\ SubSeq(propertyNames', 1, Len(propertyNames)) = propertyNames
          /\ \A i \in (Len(propertyNames) + 1)..Len(propertyNames') :
                propertyNames'[i] = AutoName(i)
          /\ Len(propertyNames') = Len(propBuffers')]_vars

\* C23: once the buffers exist, an ESIZES record leaves the component counts
\* as they are: the counts addPoint, the write loop, the ATOM copy and the
\* result read.
C23_SizesFixed ==
    [][\A parts \in SizeDeclLines :
          (Esizes(parts) /\ propBuffersSet)
          => propertySizes' = propertySizes]_vars

\* The positions of the single-component arrays of a result
ScalarArrays(r) ==
    {p \in 1..Len(r.arrays) : r.arrays[p].numberOfComponents = 1}

\* C26: the active scalar of the result is the first of its arrays with one
\* component, and there is none only when no array has one component.
C26_ActiveScalar ==
    pc = "done"
    => result.scalars =
         IF ScalarArrays(result) = {} THEN 0
         ELSE CHOOSE p \in ScalarArrays(result) :
                \A q \in ScalarArrays(result) : p <= q

-----------------------------------------------------------------------------
(* SpecHeader: the scan of the texts made of PROPERTY_CLASS_HEADER blocks   *)
(* (for the properties Z and W, with a unit and a kind line), of two        *)
(* PROPERTIES records, of vertex records with zero to two property columns, *)
(* a non-finite coordinate or a non-finite column, and of a TRGL record.    *)

HeaderLines ==
    {<<"END">>, <<"TRGL", "1", "2", "3">>,
     <<"PROPERTIES", "Z">>, <<"PROPERTIES", "prop_2">>,
     <<"PROPERTY_CLASS_HEADER", "Z", "{">>,
     <<"PROPERTY_CLASS_HEADER", "W", "{">>,
     <<"unit:", "m">>, <<"kind:", "depth">>, <<"}">>,
     <<"VRTX", "1", "0", "0", "0">>, <<"VRTX", "1", "x", "0", "0">>,
     <<"VRTX", "2", "0", "0", "0", "5">>, <<"VRTX", "2", "0", "0", "0", "x">>,
     <<"VRTX", "3", "0", "0", "0", "5", "7">>}

InitHeader ==
    /\ InitState
    /\ shareAtomPoints = TRUE
    /\ noDataToNaN = TRUE
    /\ hist = HistTrack

NextHeader ==
    \/ \E parts \in HeaderLines :
          \/ Ignore(parts)
          \/ End(parts)
          \/ Properties(parts)
          \/ PropertyClassHeader(parts)
          \/ HeaderLine(parts)
          \/ Vrtx(parts)
          \/ Trgl(parts)
    \/ HeaderEndOfText
    \/ EndOfText

SpecHeader == InitHeader /\ [][NextHeader]_vars

-----------------------------------------------------------------------------
(* Properties of the names, of the vertex tokens and of the header blocks,  *)
(* checked under SpecHeader                                                 *)

\* C24: the names of the properties of a result are pairwise distinct.
C24_DistinctNames ==
    pc = "done"
    => \A i, j \in 1..Len(result.properties) :
          result.properties[i].name = result.properties[j].name => i = j

HeaderVrtxLines ==
    {parts \in HeaderLines : Classify(parts) = "VRTX" /\ Len(parts) >= 5}

\* parseFloat of a token with not-a-number in place of a non-finite value
FiniteOrNaN(tok) ==
    LET v == parseFloat(tok) IN IF isFinite(v) THEN v ELSE NaN

\* C25: a vertex record with a finite id appends a vertex with its three
\* coordinates, not-a-number standing for a non-finite coordinate token, and
\* maps its id to the new index; with property columns, the buffer of each
\* single-component property fed by a column holds the value of the column,
\* not-a-number for a non-finite token.
C25_NonFiniteFiltered ==
    [][\A parts \in HeaderVrtxLines :
          (Vrtx(parts) /\ pc' = "scan" /\ Len(pts) < MaxPts)
          => /\ pts' = Append(pts, <<FiniteOrNaN(parts[3]), FiniteOrNaN(parts[4]),
                                     FiniteOrNaN(parts[5])>>)
             /\ parseInt(parts[2]) \in DOMAIN idToIndex'
             /\ idToIndex'[parseInt(parts[2])] = Len(pts)
             /\ \A p \in 1..(Len(parts) - 5) :
                   /\ p <= Len(propBuffers')
                   /\ GetAt(propBuffers'[p], Len(pts)) = FiniteOrNaN(parts[p + 5])]_vars

\* The schema entries a step that creates the buffers fills from the headers:
\* those of the declared names, or all of them when no name was declared
NamedAtInit == IF Len(propertyNames) > 0 THEN Len(propertyNames)
               ELSE Len(propertyNames')

\* C27: the step that creates the buffers gives each schema entry the unit
\* and the kind recorded for its name by the header blocks read so far, and
\* none when no block named it, whatever other names the blocks carried; the
\* result reports them; and the lines of a header block raise no error and
\* change no schema entry.
C27_HeaderUnits ==
    [][/\ (~propBuffersSet /\ propBuffersSet' /\ pc' \in {"scan", "done"})
          => /\ Len(propertyUnits') = Len(propertyNames')
             /\ Len(propertyKinds') = Len(propertyNames')
             /\ \A i \in 1..Len(propertyNames') :
                   /\ propertyUnits'[i] =
                        IF i <= NamedAtInit /\ propertyNames'[i] \in DOMAIN headerUnits
                        THEN headerUnits[propertyNames'[i]] ELSE undefined
                   /\ propertyKinds'[i] =
                        IF i <= NamedAtInit /\ propertyNames'[i] \in DOMAIN headerKinds
                        THEN headerKinds[propertyNames'[i]] ELSE undefined
                   /\ pc' = "done"
                      => /\ result'.properties[i].unit = propertyUnits'[i]
                         /\ result'.properties[i].kind = propertyKinds'[i]
       /\ \A parts \in HeaderLines :
             (PropertyClassHeader(parts) \/ HeaderLine(parts))
             => /\ pc' \in {"scan", "header"}
                /\ UNCHANGED <<propertyNames, propertyUnits, propertyKinds,
                               propertySizes, propBuffers>>
                /\ \A n \in DOMAIN headerUnits' :
                      n \in DOMAIN headerUnits \/ n = headerName
                /\ \A n \in DOMAIN headerKinds' :
                      n \in DOMAIN headerKinds \/ n = headerName]_vars

\* The buffers exist for the property Z with the unit m and the kind depth
\* of its block, while a block for W, which is no property, was read too
C27_Witness ==
    /\ pc = "scan"
    /\ propBuffersSet
    /\ propertyNames = <<"Z">>
    /\ propertyUnits = <<"m">>
    /\ propertyKinds = <<"depth">>
    /\ "W" \in DOMAIN headerUnits

-----------------------------------------------------------------------------
(* The ScenePicker of ScenePicker.ts.  The interactor holds, for each        *)
(* button, the handlers subscribed to the press event of that button, in    *)
(* the order of subscription; a handler is the closure handler(button) of   *)
(* l.83, known by the button it carries.  An unsubscriber is known by the   *)
(* event it was returned for, the shape of what the interactor returned     *)
(* (a function, or an object with unsubscribe) and what a call of it does   *)
(* (remove the handler, throw, or remove it and throw).  The injected       *)
(* picker is known by the getters it exposes and the values they return     *)
(* after pick(): a record with one field per getter exposed; a list getter  *)
(* that returns null or undefined is the empty list (both code paths read   *)
(* ?.length), "null" is null and "undefined" is undefined.                  *)

\* The handler subscribed for a button, l.83
Handler(button) == [button |-> button]

\* toUnsubscribe, ll.188-195, on what the interactor returned for event
toUnsubscribe(event, shape, effect) ==
    IF shape \in {"function", "object"}
    THEN <<[event |-> event, shape |-> shape, effect |-> effect]>>
    ELSE <<>>

\* modifiersMatch that only checks the keys required to be down
modifiersMatch_OnlyTrue(mods, required) ==
    \A k \in DOMAIN required : required[k] => mods[k]

\* modifiersMatch, ll.175-185; a key absent from required is undefined
modifiersMatch(mods, required) ==
    \A k \in DOMAIN required : mods[k] = required[k]

\* The modifiers the handler reads from callData, ll.90-95
ModsOf(callData) ==
    [shift |-> callData.shiftKey, ctrl |-> callData.controlKey,
     alt |-> callData.altKey, meta |-> callData.metaKey]

\* typeof v === 'number' && v >= 0 on the id values of the model
IsIdNumber(v) == v \in {"0", "4"}

\* computePicked without the test of getViewProp
computePicked_NoViewProp(p) ==
    \/ "getActors" \in DOMAIN p /\ Len(p.getActors) > 0
    \/ "getProp3Ds" \in DOMAIN p /\ Len(p.getProp3Ds) > 0
    \/ "getActor" \in DOMAIN p /\ p.getActor # "null"
    \/ "getCellId" \in DOMAIN p /\ IsIdNumber(p.getCellId)
    \/ "getPointId" \in DOMAIN p /\ IsIdNumber(p.getPointId)
    \/ "getPropId" \in DOMAIN p /\ IsIdNumber(p.getPropId)
    \/ "getCompositeID" \in DOMAIN p /\ IsIdNumber(p.getCompositeID)

\* computePicked, ll.139-154
computePicked(p) ==
    \/ "getActors" \in DOMAIN p /\ Len(p.getActors) > 0
    \/ "getProp3Ds" \in DOMAIN p /\ Len(p.getProp3Ds) > 0
    \/ "getActor" \in DOMAIN p /\ p.getActor # "null"
    \/ "getViewProp" \in DOMAIN p /\ p.getViewProp # "null"
    \/ "getCellId" \in DOMAIN p /\ IsIdNumber(p.getCellId)
    \/ "getPointId" \in DOMAIN p /\ IsIdNumber(p.getPointId)
    \/ "getPropId" \in DOMAIN p /\ IsIdNumber(p.getPropId)
    \/ "getCompositeID" \in DOMAIN p /\ IsIdNumber(p.getCompositeID)

\* normalizePick, ll.157-173
normalizePick(p) ==
    [actor |->
        IF "getActor" \in DOMAIN p /\ p.getActor # "null" THEN p.getActor
        ELSE IF "getViewProp" \in DOMAIN p /\ p.getViewProp # "null"
             THEN p.getViewProp
        ELSE IF "getActors" \in DOMAIN p /\ Len(p.getActors) > 0
             THEN p.getActors[1]
        ELSE IF "getProp3Ds" \in DOMAIN p /\ Len(p.getProp3Ds) > 0
             THEN p.getProp3Ds[1]
        ELSE "null",
     world |-> IF "getPickPosition" \in DOMAIN p THEN p.getPickPosition
               ELSE "null",
     cellId |-> IF "getCellId" \in DOMAIN p THEN p.getCellId ELSE "undefined",
     pointId |-> IF "getPointId" \in DOMAIN p THEN p.getPointId
                 ELSE "undefined"]

\* Whether the handler goes past its two early returns, ll.85 and 98
Qualifies(callData) ==
    /\ callData.pokedRenderer # "none"
    /\ callData.position # <<>>
    /\ modifiersMatch(ModsOf(callData), opts.requireModifiers)

\* The event the handler of a button builds, ll.100-118
EventOf(button, callData, p) ==
    LET norm == normalizePick(p) IN
    [renderer |-> callData.pokedRenderer,
     displayPos |-> <<callData.position[1], callData.position[2], 0>>,
     picked |-> computePicked(p),
     modifiers |-> ModsOf(callData),
     button |-> button,
     actor |-> norm.actor, world |-> norm.world,
     cellId |-> norm.cellId, pointId |-> norm.pointId]

\* The calls one handler makes on the listeners, l.121
FanOut(button, callData, p) ==
    [i \in 1..Len(listeners) |->
        [listener |-> listeners[i], event |-> EventOf(button, callData, p)]]

RECURSIVE Concat(_)
Concat(seqs) == IF Len(seqs) = 0 THEN <<>> ELSE Head(seqs) \o Concat(Tail(seqs))

\* The interactor dispatches a press of button b with callData to the
\* handlers subscribed to it; p is the state pick() leaves the picker in
Press(b, callData, p) ==
    /\ log' = [log EXCEPT
                 !.press = [button |-> b, callData |-> callData],
                 !.picks = IF Qualifies(callData) THEN Len(interactor[b]) ELSE 0,
                 !.delivered =
                    IF Qualifies(callData)
                    THEN Concat([h \in 1..Len(interactor[b]) |->
                                    FanOut(interactor[b][h].button, callData, p)])
                    ELSE <<>>]
    /\ UNCHANGED <<opts, subUnsub, listeners, interactor>>
    /\ UNCHANGED ParserVars
    /\ UNCHANGED genericPicker

\* Set.prototype.add on listeners
SetAdd(set, cb) ==
    IF \E i \in 1..Len(set) : set[i] = cb THEN set ELSE Append(set, cb)

\* SetDelete that drops the listener added last
SetDelete_Last(set, cb) ==
    IF Len(set) = 0 THEN set ELSE SubSeq(set, 1, Len(set) - 1)

\* Set.prototype.delete on listeners
SetDelete(set, cb) == SelectSeq(set, LAMBDA x : x # cb)

\* onPick(cb), ll.72-75
OnPick(cb) ==
    /\ listeners' = SetAdd(listeners, cb)
    /\ log' = [log EXCEPT !.handles = @ \cup {cb}, !.removed = @ \ {cb},
                           !.disposed = @ \ {cb}]
    /\ UNCHANGED <<opts, subUnsub, interactor>>
    /\ UNCHANGED ParserVars
    /\ UNCHANGED genericPicker

\* The unsubscriber onPick(cb) returned is called, l.74
Unsubscribe(cb) ==
    /\ cb \in log.handles
    /\ listeners' = SetDelete(listeners, cb)
    /\ log' = [log EXCEPT !.removed = @ \cup {cb}]
    /\ UNCHANGED <<opts, subUnsub, interactor>>
    /\ UNCHANGED ParserVars
    /\ UNCHANGED genericPicker

\* The interactor's table after a call of the unsubscriber u
Unsubscribed(table, u) ==
    IF u.effect = "throws" THEN table
    ELSE [table EXCEPT ![u.event] = SelectSeq(@, LAMBDA h : h # Handler(u.event))]

\* DisposeLoop that stops at the first unsubscriber that throws
RECURSIVE DisposeLoop_NoCatch(_, _)
DisposeLoop_NoCatch(unsubs, table) ==
    IF Len(unsubs) = 0 THEN table
    ELSE IF unsubs[Len(unsubs)].effect = "removes"
         THEN DisposeLoop_NoCatch(SubSeq(unsubs, 1, Len(unsubs) - 1),
                                  Unsubscribed(table, unsubs[Len(unsubs)]))
         ELSE table

\* The loop of dispose, ll.65-68, on the unsubscribers left
RECURSIVE DisposeLoop(_, _)
DisposeLoop(unsubs, table) ==
    IF Len(unsubs) = 0 THEN table
    ELSE DisposeLoop(SubSeq(unsubs, 1, Len(unsubs) - 1),
                     Unsubscribed(table, unsubs[Len(unsubs)]))

\* dispose(), ll.63-70
Dispose ==
    /\ interactor' = DisposeLoop(subUnsub, interactor)
    /\ subUnsub' = <<>>
    /\ listeners' = <<>>
    /\ log' = [log EXCEPT
                 !.unsubscribed = @ \o [i \in 1..Len(subUnsub) |->
                                          subUnsub[Len(subUnsub) + 1 - i].event],
                 !.disposed = @ \cup {listeners[i] : i \in 1..Len(listeners)},
                 !.wasDisposed = TRUE]
    /\ UNCHANGED opts
    /\ UNCHANGED ParserVars
    /\ UNCHANGED genericPicker

\* opts.button ?? 'left', l.57
ButtonOf(buttonOpt) == IF buttonOpt = undefined THEN "left" ELSE buttonOpt

\* A constructor whose attach wires the handler of every button
Constructed_AllButtons(buttonOpt, required, shape, effect) ==
    /\ opts = [button |-> ButtonOf(buttonOpt), requireModifiers |-> required]
    /\ interactor = [b \in Buttons |-> <<Handler(b)>>]
    /\ subUnsub = toUnsubscribe(ButtonOf(buttonOpt), shape, effect)
    /\ listeners = <<>>
    /\ log = [LogInit EXCEPT !.given = buttonOpt]
    /\ genericPicker = NoGenericPicker

\* The state new ScenePicker(interactor, picker, options) leaves, ll.52-61
\* and 77-136: buttonOpt and required are the options given (undefined and
\* the empty mask when absent), shape and effect what the interactor
\* returned for the subscription
Constructed(buttonOpt, required, shape, effect) ==
    /\ opts = [button |-> ButtonOf(buttonOpt), requireModifiers |-> required]
    /\ interactor = [b \in Buttons |->
                        IF b = ButtonOf(buttonOpt) THEN <<Handler(b)>> ELSE <<>>]
    /\ subUnsub = toUnsubscribe(ButtonOf(buttonOpt), shape, effect)
    /\ listeners = <<>>
    /\ log = [LogInit EXCEPT !.given = buttonOpt]
    /\ genericPicker = NoGenericPicker

-----------------------------------------------------------------------------
(* SpecPicker: a ScenePicker constructed with any button option and one of  *)
(* five modifier masks, on an interactor that returns a function or an      *)
(* object with unsubscribe; then any sequence of presses of the three       *)
(* buttons (callData with or without renderer and position, every           *)
(* combination of the four modifier keys), of onPick for two callbacks, of  *)
(* calls of the unsubscribers returned, and of dispose().                   *)

Callbacks == {"cb1", "cb2"}

RequiredMasks ==
    {EmptyMap, "shift" :> TRUE, "shift" :> FALSE,
     ("shift" :> TRUE) @@ ("ctrl" :> FALSE),
     ("alt" :> TRUE) @@ ("meta" :> FALSE)}

Subscriptions ==
    {<<"function", "removes">>, <<"object", "removes">>,
     <<"object", "throws">>, <<"object", "removesAndThrows">>}

CallDatas ==
    {NullCallData,
     [NullCallData EXCEPT !.pokedRenderer = "ren"],
     [NullCallData EXCEPT !.position = <<3, 4>>]}
    \cup {[pokedRenderer |-> "ren", position |-> <<3, 4>>, shiftKey |-> s,
           controlKey |-> c, altKey |-> a, metaKey |-> m] :
             s \in BOOLEAN, c \in BOOLEAN, a \in BOOLEAN, m \in BOOLEAN}

\* A cell picker after a pick that hit: vtkCellPicker's getters
CellPick ==
    [getActors |-> <<"actor1">>, getCellId |-> "4",
     getPickPosition |-> <<1, 2, 3>>]

InitPicker ==
    /\ InitContainers
    /\ lines = <<>>
    /\ li = NoText
    /\ shareAtomPoints = TRUE
    /\ noDataToNaN = TRUE
    /\ hist = HistOff
    /\ \E buttonOpt \in Buttons \cup {undefined}, required \in RequiredMasks,
          sub \in Subscriptions :
          Constructed(buttonOpt, required, sub[1], sub[2])

NextPicker ==
    \/ \E b \in Buttons, callData \in CallDatas : Press(b, callData, CellPick)
    \/ \E cb \in Callbacks : OnPick(cb)
    \/ \E cb \in Callbacks : Unsubscribe(cb)
    \/ Dispose

SpecPicker == InitPicker /\ [][NextPicker]_vars

-----------------------------------------------------------------------------
(* Properties of the ScenePicker, checked under SpecPicker *)

\* The number of calls of the listener cb among the deliveries
Calls(delivered, cb) ==
    Cardinality({i \in 1..Len(delivered) : delivered[i].listener = cb})

\* A step of Press: the only step that leaves the listeners, the
\* subscriptions and the rest of the history as they are; the press is then
\* log'.press
PressStep ==
    /\ log'.press.button \in Buttons
    /\ UNCHANGED <<opts, subUnsub, listeners, interactor>>
    /\ log' = [log EXCEPT !.press = log'.press, !.picks = log'.picks,
                          !.delivered = log'.delivered]

\* Whether the press log'.press is one the handler goes through with: the
\* subscribed button, a renderer, a position, the required modifiers
PressQualifies ==
    /\ interactor[log'.press.button] # <<>>
    /\ Qualifies(log'.press.callData)

\* The listeners registered by onPick and neither unsubscribed nor cleared
\* by dispose() since
Registered == log.handles \ (log.removed \cup log.disposed)

\* C28: the call of the unsubscriber onPick(cb) returned takes cb out of the
\* listeners and leaves the others; and a press calls no listener whose
\* unsubscriber was called, and calls every other registered listener once
\* when it qualifies (the subscribed button, a renderer, a position and the
\* required modifiers) and not at all when it does not.
C28_Unsubscribe ==
    [][/\ \A cb \in Callbacks :
             Unsubscribe(cb)
             => listeners' = SelectSeq(listeners, LAMBDA x : x # cb)
       /\ PressStep
          => \A cb \in Callbacks :
                /\ cb \in log.removed => Calls(log'.delivered, cb) = 0
                /\ cb \in Registered
                   => Calls(log'.delivered, cb) =
                        IF PressQualifies THEN 1 ELSE 0]_vars

\* cb1 and cb2 were registered, the unsubscriber of cb1 was called, and the
\* press that followed called cb2 once and cb1 not
C28_Witness ==
    /\ "cb1" \in log.removed
    /\ "cb2" \in Registered
    /\ Len(log.delivered) = 1
    /\ log.delivered[1].listener = "cb2"

KeyState(callData, k) ==
    CASE k = "shift" -> callData.shiftKey
      [] k = "ctrl" -> callData.controlKey
      [] k = "alt" -> callData.altKey
      [] k = "meta" -> callData.metaKey

\* C30: a press runs the picker or calls a listener only if every key that
\* requireModifiers holds is in the required state; a press with a renderer
\* and a position, on the subscribed button, with the required keys in the
\* required state, runs the picker whatever the state of the other keys;
\* and a press rejected for its modifiers runs no picker and calls no
\* listener.
C30_RequiredModifiers ==
    [][PressStep
       => LET callData == log'.press.callData
              matches == \A k \in DOMAIN opts.requireModifiers :
                            KeyState(callData, k) = opts.requireModifiers[k]
          IN  /\ (log'.picks > 0 \/ log'.delivered # <<>>) => matches
              /\ (matches /\ callData.pokedRenderer # "none"
                  /\ callData.position # <<>>
                  /\ interactor[log'.press.button] # <<>>)
                 => /\ log'.picks = 1
                    /\ Len(log'.delivered) = Len(listeners)
              /\ ~matches => (log'.picks = 0 /\ log'.delivered = <<>>)]_vars

\* With shift required down and ctrl required up, a press with shift and
\* alt down, alt being no required key, ran the picker and called a listener
C30_Witness ==
    /\ DOMAIN opts.requireModifiers = {"shift", "ctrl"}
    /\ log.press.callData.shiftKey /\ ~log.press.callData.controlKey
    /\ log.press.callData.altKey
    /\ log.picks = 1
    /\ Len(log.delivered) = 1

\* The button a ScenePicker given the option log.given is configured for
ConfiguredButton == IF log.given = undefined THEN "left" ELSE log.given

\* C31: the ScenePicker holds a handler on the press event of the
\* configured button only ("left" when it was given no button option), one
\* handler until dispose() ran; a press of another button runs no picker and
\* calls no listener; and every event delivered carries the configured
\* button.
C31_OneButton ==
    [][/\ opts.button = ConfiguredButton
       /\ \A b \in Buttons : interactor[b] # <<>> => b = ConfiguredButton
       /\ ~log.wasDisposed => Len(interactor[ConfiguredButton]) = 1
       /\ PressStep
          => /\ log'.press.button # ConfiguredButton
                => (log'.picks = 0 /\ log'.delivered = <<>>)
             /\ \A i \in 1..Len(log'.delivered) :
                   log'.delivered[i].event.button = ConfiguredButton]_vars

\* A ScenePicker given no button option delivered the event of a press of
\* the left button to two listeners
C31_Witness ==
    /\ log.given = undefined
    /\ log.press.button = "left"
    /\ Len(log.delivered) = 2
    /\ log.delivered[1].event.button = "left"

-----------------------------------------------------------------------------
(* SpecPicks: a ScenePicker for the left button without required modifier,  *)
(* whose injected picker exposes any subset of getActors, getProp3Ds,       *)
(* getActor, getViewProp, getCellId and getPointId; after each pick() the   *)
(* list getters return an empty list, a list of one prop or a list whose    *)
(* first entry is null, the prop getters null or a prop, the id getters -1  *)
(* or an id.                                                                *)

\* A getter of the picker: not exposed, or exposed and returning val
Getter(name, choice) ==
    IF choice.has THEN name :> choice.val ELSE EmptyMap

NoGetter == [has |-> FALSE, val |-> "undefined"]

ListGetters(prop) ==
    {NoGetter, [has |-> TRUE, val |-> <<>>], [has |-> TRUE, val |-> <<prop>>],
     [has |-> TRUE, val |-> <<"null">>]}

PropGetters(prop) ==
    {NoGetter, [has |-> TRUE, val |-> "null"], [has |-> TRUE, val |-> prop]}

IdGetters ==
    {NoGetter, [has |-> TRUE, val |-> "-1"], [has |-> TRUE, val |-> "4"]}

Pickers ==
    {Getter("getActors", as) @@ Getter("getProp3Ds", ps)
       @@ Getter("getActor", a) @@ Getter("getViewProp", v)
       @@ Getter("getCellId", c) @@ Getter("getPointId", t) :
         as \in ListGetters("actor1"), ps \in ListGetters("prop1"),
         a \in PropGetters("actor2"), v \in PropGetters("prop2"),
         c \in IdGetters, t \in IdGetters}

\* A press on a renderer, at a position, without modifier key
PickCallData ==
    [NullCallData EXCEPT !.pokedRenderer = "ren", !.position = <<3, 4>>]

InitPicks ==
    /\ InitContainers
    /\ lines = <<>>
    /\ li = NoText
    /\ shareAtomPoints = TRUE
    /\ noDataToNaN = TRUE
    /\ hist = HistOff
    /\ Constructed(undefined, EmptyMap, "object", "removes")

NextPicks ==
    \/ \E b \in Buttons, p \in Pickers : Press(b, PickCallData, p)
    \/ \E cb \in Callbacks : OnPick(cb)
    \/ \E cb \in Callbacks : Unsubscribe(cb)
    \/ Dispose

SpecPicks == InitPicks /\ [][NextPicks]_vars

-----------------------------------------------------------------------------
(* The GenericVTKPicker with drag visualization of unnamed/part_000.  The   *)
(* helpers take and return the record g of its fields.  An event is known   *)
(* by its modifier keys; the outcome of picker.pick is whether getActors()  *)
(* is non-empty, and getPickPosition() then gives the world position.  The *)
(* pick listeners return normally and do not call the picker.               *)

\* isModifierKeyActive, ll.182-195
isModifierKeyActive(g, event) ==
    CASE g.config.modifierKey = "none" -> TRUE
      [] g.config.modifierKey = "shift" -> event.shiftKey
      [] g.config.modifierKey = "ctrl" -> event.controlKey
      [] g.config.modifierKey = "alt" -> event.altKey
      [] OTHER -> TRUE

\* updateModifierState, ll.197-199
updateModifierState(g, event) ==
    [g EXCEPT !.currentModifierPressed = isModifierKeyActive(g, event)]

\* hideVisualization that hides the ray and leaves the point
hideVisualization_RayOnly(g) == [g EXCEPT !.rayActor = FALSE]

\* hideVisualization, ll.257-265
hideVisualization(g) == [g EXCEPT !.rayActor = FALSE, !.pointActor = FALSE]

\* showVisualization, ll.237-255
showVisualization(g) ==
    IF ~g.config.showRayDuringDrag THEN g
    ELSE [g EXCEPT !.rayActor = TRUE, !.pointActor = TRUE]

\* performPick, ll.201-210, for a pick that succeeds or not; a successful
\* pick carries the world position (l.277)
performPick(g, success) ==
    LET g1 == [g EXCEPT !.lastPickResult = IF success THEN "success" ELSE "failure"]
    IN  IF success THEN showVisualization(g1) ELSE hideVisualization(g1)

\* updateRayVisualization, ll.212-235
updateRayVisualization(g) ==
    IF g.lastPickResult # "success" THEN g
    ELSE [g EXCEPT !.rayActor = TRUE, !.pointActor = TRUE]

\* The parser and the ScenePicker are not concerned
GenericFrame == UNCHANGED <<ParserVars, opts, subUnsub, listeners, interactor, log>>

\* The handler of onLeftButtonPress, ll.146-151
onLeftButtonPress(event, success) ==
    /\ genericPicker' =
          IF isModifierKeyActive(genericPicker, event)
          THEN performPick([genericPicker EXCEPT !.isMouseDown = TRUE], success)
          ELSE genericPicker
    /\ GenericFrame

\* The handler of onMouseMove, ll.154-158
onMouseMove(event) ==
    /\ genericPicker' =
          IF /\ genericPicker.isMouseDown
             /\ isModifierKeyActive(genericPicker, event)
             /\ genericPicker.config.showRayDuringDrag
          THEN updateRayVisualization(genericPicker)
          ELSE genericPicker
    /\ GenericFrame

\* The handler of onLeftButtonRelease, ll.161-166
onLeftButtonRelease ==
    /\ genericPicker' =
          IF genericPicker.isMouseDown
          THEN hideVisualization([genericPicker EXCEPT !.isMouseDown = FALSE])
          ELSE genericPicker
    /\ GenericFrame

\* The handler of onKeyPress, ll.169-171
onKeyPress(event) ==
    /\ genericPicker' = updateModifierState(genericPicker, event)
    /\ GenericFrame

\* The handler of onKeyUp, ll.173-179
onKeyUp(event) ==
    /\ genericPicker' =
          LET g == updateModifierState(genericPicker, event) IN
          IF g.isMouseDown /\ ~isModifierKeyActive(g, event)
          THEN hideVisualization(g) ELSE g
    /\ GenericFrame

\* pick(x, y), ll.267-304: it runs the picker and notifies the listeners,
\* and writes no field
pick(success) ==
    /\ UNCHANGED genericPicker
    /\ GenericFrame

\* updateConfig, ll.334-373, for the options type, modifierKey and
\* showRayDuringDrag ("true" | "false"), each undefined when absent
updateConfig(config) ==
    /\ genericPicker' =
          [genericPicker EXCEPT
             !.config.type = IF config.type # undefined THEN config.type ELSE @,
             !.config.modifierKey =
                 IF config.modifierKey # undefined THEN config.modifierKey ELSE @,
             !.config.showRayDuringDrag =
                 IF config.showRayDuringDrag # undefined
                 THEN config.showRayDuringDrag = "true" ELSE @]
    /\ GenericFrame

-----------------------------------------------------------------------------
(* SpecGeneric: a GenericVTKPicker constructed with any picker type, any    *)
(* modifier key and showRayDuringDrag on or off; then any sequence of       *)
(* left-button presses and releases, mouse moves, key presses and releases  *)
(* (events with every combination of shift, control and alt), calls of      *)
(* pick() and calls of updateConfig.                                        *)

PickerTypes == {"cell", "point", "world"}

ModifierKeyNames == {"none", "shift", "ctrl", "alt"}

MouseEvents == [shiftKey : BOOLEAN, controlKey : BOOLEAN, altKey : BOOLEAN]

ConfigUpdates ==
    [type : PickerTypes \cup {undefined},
     modifierKey : ModifierKeyNames \cup {undefined},
     showRayDuringDrag : {"true", "false", undefined}]

InitGeneric ==
    /\ InitContainers
    /\ lines = <<>>
    /\ li = NoText
    /\ shareAtomPoints = TRUE
    /\ noDataToNaN = TRUE
    /\ hist = HistOff
    /\ opts = [button |-> "left", requireModifiers |-> EmptyMap]
    /\ subUnsub = <<>>
    /\ listeners = <<>>
    /\ interactor = [b \in Buttons |-> <<>>]
    /\ log = LogInit
    /\ \E type \in PickerTypes, modifierKey \in ModifierKeyNames,
          showRayDuringDrag \in BOOLEAN :
          genericPicker = GenericPickerOf(type, modifierKey, showRayDuringDrag)

NextGeneric ==
    \/ \E event \in MouseEvents, success \in BOOLEAN :
          onLeftButtonPress(event, success)
    \/ \E event \in MouseEvents : onMouseMove(event)
    \/ onLeftButtonRelease
    \/ \E event \in MouseEvents : onKeyPress(event)
    \/ \E event \in MouseEvents : onKeyUp(event)
    \/ \E success \in BOOLEAN : pick(success)
    \/ \E config \in ConfigUpdates : updateConfig(config)

SpecGeneric == InitGeneric /\ [][NextGeneric]_vars

-----------------------------------------------------------------------------
(* The scan of a text given whole.  One step is one iteration of the main   *)
(* loop, ll.217-331: the iteration of a PROPERTY_CLASS_HEADER record runs   *)
(* parsePropertyClassHeader over the lines that follow and moves li to the  *)
(* index it returns.                                                        *)

\* The index at which the loop of ll.204-212 stops when it starts at i: the
\* first line from i on that holds a brace, or lines.length
RECURSIVE BlockEnd(_, _)
BlockEnd(text, i) ==
    IF i >= Len(text) THEN i
    ELSE IF HasBrace(text[i + 1]) THEN i
    ELSE BlockEnd(text, i + 1)

\* parsePropertyClassHeader that steps back when the line names no property
parsePropertyClassHeader_Before(text, idx) ==
    IF Len(text[idx + 1]) < 2 THEN idx - 1 ELSE BlockEnd(text, idx + 1)

\* The index parsePropertyClassHeader(line, idx) returns, ll.199-213
parsePropertyClassHeader(text, idx) ==
    IF Len(text[idx + 1]) < 2 THEN idx ELSE BlockEnd(text, idx + 1)

\* headerUnits after the lines i..end-1 of the block of name, ll.207-208
RECURSIVE BlockUnits(_, _, _, _, _)
BlockUnits(map, name, text, i, end) ==
    IF i >= end THEN map
    ELSE BlockUnits(IF UnitOf(text[i + 1]) # undefined
                    THEN MapSet(map, name, UnitOf(text[i + 1])) ELSE map,
                    name, text, i + 1, end)

\* headerKinds after the lines i..end-1 of the block of name, ll.209-210
RECURSIVE BlockKinds(_, _, _, _, _)
BlockKinds(map, name, text, i, end) ==
    IF i >= end THEN map
    ELSE BlockKinds(IF KindOf(text[i + 1]) # undefined
                    THEN MapSet(map, name, KindOf(text[i + 1])) ELSE map,
                    name, text, i + 1, end)

\* The main loop has a line to read, l.217, and it is parts
LoopLine(parts) ==
    /\ li # NoText
    /\ li < Len(lines)
    /\ parts = lines[li + 1]

\* The iteration of a PROPERTY_CLASS_HEADER record, ll.245-248:
\* li = parsePropertyClassHeader(line, li), then the li++ of continue
HeaderBlock ==
    /\ pc = "scan"
    /\ li # NoText
    /\ li < Len(lines)
    /\ Classify(lines[li + 1]) = "PROPERTY_CLASS_HEADER"
    /\ LET i == parsePropertyClassHeader(lines, li) IN
       /\ li' = i + 1
       /\ headerUnits' = IF Len(lines[li + 1]) < 2 THEN headerUnits
                          ELSE BlockUnits(headerUnits, lines[li + 1][2], lines,
                                          li + 1, i)
       /\ headerKinds' = IF Len(lines[li + 1]) < 2 THEN headerKinds
                          ELSE BlockKinds(headerKinds, lines[li + 1][2], lines,
                                          li + 1, i)
    /\ lines' = lines
    /\ UNCHANGED <<pc, shareAtomPoints, noDataToNaN, propertyNames,
                   propertyUnits, propertyKinds, propertySizes,
                   noDataValuesList, idToIndex, pts, tris, skippedTriangles,
                   propBuffers, propBuffersSet, result, headerName, hist>>
    /\ UNCHANGED PickerVars

\* The main loop ends at lines.length, l.217
LoopEndOfText ==
    /\ li # NoText
    /\ li >= Len(lines)
    /\ EndOfText

-----------------------------------------------------------------------------
(* SpecLoop: the scan of every text of at most MaxTextLen lines among a     *)
(* vertex record with a column, a TRGL record, END, a header line that      *)
(* opens a block, one without a name, the one-line form of a block, a unit  *)
(* line and a closing brace.  The call is synchronous: the loop keeps       *)
(* running until it returns or throws.                                      *)

MaxTextLen == 4

LoopLines ==
    {<<"END">>, <<"TRGL", "1", "1", "1">>,
     <<"VRTX", "1", "0", "0", "0", "5">>,
     <<"PROPERTY_CLASS_HEADER", "prop_1", "{">>,
     <<"PROPERTY_CLASS_HEADER">>,
     <<"PROPERTY_CLASS_HEADER", "prop_1", "{", "unit:", "m", "}">>,
     <<"unit:", "m">>, <<"}">>}

\* The number of records of one kind in a text
CountKind(text, kind) ==
    Cardinality({i \in 1..Len(text) : Classify(text[i]) = kind})

\* The texts whose scan stays within the bounds on points and triangles
Texts ==
    {text \in UNION {[1..n -> LoopLines] : n \in 0..MaxTextLen} :
        /\ CountKind(text, "VRTX") <= MaxPts
        /\ CountKind(text, "TRGL") <= MaxSkipped}

InitLoop ==
    /\ InitContainers
    /\ NoPicker
    /\ shareAtomPoints = TRUE
    /\ noDataToNaN = TRUE
    /\ hist = HistOff
    /\ lines \in Texts
    /\ li = 0

NextLoop ==
    \/ \E parts \in LoopLines :
          \/ LoopLine(parts) /\ Ignore(parts)
          \/ LoopLine(parts) /\ End(parts)
          \/ LoopLine(parts) /\ Vrtx(parts)
          \/ LoopLine(parts) /\ Trgl(parts)
    \/ HeaderBlock
    \/ LoopEndOfText

SpecLoop == InitLoop /\ [][NextLoop]_vars /\ WF_vars(NextLoop)

-----------------------------------------------------------------------------
(* Properties of the whole scan *)

\* C32: the parse never aborts with an error other than the two structural
\* ones: whatever the records and their order, no step throws a TypeError.
C32_NoOtherError == pc # "TypeError"

\* The first line from index i on that holds a closing brace, lines.length
\* when there is none
ClosingBrace(text, i) ==
    IF \E j \in i..(Len(text) - 1) : HasBrace(text[j + 1])
    THEN CHOOSE j \in i..(Len(text) - 1) :
            /\ HasBrace(text[j + 1])
            /\ \A k \in i..(j - 1) : ~HasBrace(text[k + 1])
    ELSE Len(text)

\* C33: the iteration of a PROPERTY_CLASS_HEADER record that names a
\* property leaves the scan on the line after the closing brace of its
\* block, the first brace from the header line on (the header line itself
\* in the one-line form): the line read next is the one that follows that
\* brace, so no record after it is taken for a line of the block.
C33_BlockEndsAtBrace ==
    [][(HeaderBlock /\ Len(lines[li + 1]) >= 2)
       => li' = ClosingBrace(lines, li) + 1]_vars

\* C37: every iteration of the main loop that stays in the scan moves the
\* line index forward, also the iteration of a PROPERTY_CLASS_HEADER record
\* whose block is closed, never closed, or whose line names no property;
\* and the scan of a text ends: it returns or throws.
C37_Terminates ==
    /\ [][(pc = "scan" /\ pc' = "scan") => li' > li]_vars
    /\ <>(pc # "scan")

\* The scan went through a text that holds a header line without name and
\* a block that is never closed, and ended past the last line
C37_Witness ==
    /\ pc # "scan"
    /\ li = Len(lines) + 1
    /\ \E i \in 1..Len(lines) : lines[i] = <<"PROPERTY_CLASS_HEADER">>
    /\ \E i \in 1..Len(lines) : lines[i] = <<"PROPERTY_CLASS_HEADER", "prop_1", "{">>

\* C34: an id that resolves to a vertex index keeps resolving to that index:
\* no step changes the index an id of idToIndex maps to.
C34_StableIndex ==
    [][\A id \in DOMAIN idToIndex :
          id \in DOMAIN idToIndex' /\ idToIndex'[id] = idToIndex[id]]_vars

\* C35: at every point of the scan the triangles retained and the
\* triangles counted as skipped add up to the TRGL records with at least
\* three id tokens read so far (those with an unresolved id, those with
\* three resolved ids of which two are one vertex, and the others); a TRGL
\* record with fewer id tokens counts nowhere.
C35_TrglAccounting ==
    hist.recording
    => Len(tris) + skippedTriangles =
         hist.trglGood + hist.trglUnresolved + hist.trglDegenerate

\* One TRGL record was retained and one with a repeated vertex was skipped
C35_Witness ==
    /\ hist.recording
    /\ Len(tris) = 1
    /\ skippedTriangles = 1
    /\ hist.trglDegenerate = 1

\* C36: when the parse returns, the noData reported for property i is null
\* if no sentinel was declared, entry i of the sentinel list if the list has
\* as many entries as the result has properties, and its first entry
\* otherwise, with normalization on or off; and with normalization on it is
\* the value the pass replaced by NaN in the buffer of property i.
C36_ReportedSentinel ==
    [][(pc = "scan" /\ pc' = "done")
       => /\ Len(result'.properties) = Len(propertyNames')
          /\ \A i \in 1..Len(result'.properties) :
                LET reported == result'.properties[i].noData IN
                /\ reported =
                     IF Len(noDataValuesList) = 0 THEN "null"
                     ELSE IF Len(noDataValuesList) = Len(result'.properties)
                          THEN noDataValuesList[i]
                          ELSE noDataValuesList[1]
                /\ (noDataToNaN /\ Len(noDataValuesList) > 0 /\ propBuffersSet)
                   => propBuffers'[i] = Substituted(propBuffers[i], reported)]_vars

\* With normalization off and the sentinels -9999 and -1 declared for two
\* properties, the result reports -9999 for the first and -1 for the second
\* and its arrays still hold them
C36_Witness ==
    /\ pc = "done" /\ ~noDataToNaN /\ ThreeVertices
    /\ Len(result.properties) = 2
    /\ result.properties[1].noData = "-9999"
    /\ result.properties[2].noData = "-1"
    /\ result.arrays[1].values[1] = "-9999"

\* C38: every event delivered to a listener that says nothing was picked
\* has a null actor, whatever getters the picker exposes and whatever they
\* return.
C38_UnpickedHasNoActor ==
    \A i \in 1..Len(log.delivered) :
       ~log.delivered[i].event.picked => log.delivered[i].event.actor = "null"

\* An event was delivered with picked = false, a null actor and the cell
\* id -1 of a picker that hit nothing
C38_Witness ==
    \E i \in 1..Len(log.delivered) :
       /\ ~log.delivered[i].event.picked
       /\ log.delivered[i].event.actor = "null"
       /\ log.delivered[i].event.cellId = "-1"

\* C39: in every state of a GenericVTKPicker the ray actor and the point
\* actor are visible only while isMouseDown is true, and either both are
\* visible or both are hidden.
C39_DragVisualization ==
    /\ (genericPicker.rayActor \/ genericPicker.pointActor)
       => genericPicker.isMouseDown
    /\ genericPicker.rayActor = genericPicker.pointActor

\* During a drag with shift as the modifier key the ray and the point are
\* shown, after a pick that succeeded
C39_Witness ==
    /\ genericPicker.isMouseDown
    /\ genericPicker.config.modifierKey = "shift"
    /\ genericPicker.lastPickResult = "success"
    /\ genericPicker.rayActor /\ genericPicker.pointActor

=============================================================================
